---- MODULE Spec2Model ----
(***************************************************************************)
(* Model of the pg_dump splitter's parser (src/parser.ts): the statement   *)
(* tokenizer Parser.splitIntoStatements, the ordered classifier            *)
(* Parser.parseStatement with its matchers, and Parser.parse.              *)
(*                                                                         *)
(* Text is a sequence of one-character strings.  Positions are 0-based as  *)
(* in the source; Slice(s, a, b) is s.slice(a, b).                         *)
(***************************************************************************)
EXTENDS Integers, Sequences, FiniteSets, TLC

\* ------------------------------------------------------------------------
\* Bounds of the checked inputs
\* ------------------------------------------------------------------------
MaxSplitPieces == 4

MaxPieces == 2

\* ------------------------------------------------------------------------
\* Characters
\* ------------------------------------------------------------------------
LowerLetters ==
  <<"a","b","c","d","e","f","g","h","i","j","k","l","m",
    "n","o","p","q","r","s","t","u","v","w","x","y","z">>

UpperLetters ==
  <<"A","B","C","D","E","F","G","H","I","J","K","L","M",
    "N","O","P","Q","R","S","T","U","V","W","X","Y","Z">>

Range(f) == {f[i] : i \in DOMAIN f}

Letters == Range(LowerLetters) \cup Range(UpperLetters)

Digits == {"0","1","2","3","4","5","6","7","8","9"}

WhiteSpace == {" ", "\n", "\r", "\t"}

Punctuation ==
  {";", ",", "'", "\"", "$", "-", "/", "*", "(", ")", ".", "_", "="}

Chars == Letters \cup Digits \cup WhiteSpace \cup Punctuation

\* The value of content[pos] past the end of the string
Undefined == "undefined"

\* An absent string (an unmatched capture group, a failed exec)
Undef == <<"undefined">>

\* ------------------------------------------------------------------------
\* String primitives of the JavaScript runtime, as the source uses them
\* ------------------------------------------------------------------------
CharAt(s, i) == IF i >= 0 /\ i < Len(s) THEN s[i + 1] ELSE Undefined

Min(a, b) == IF a < b THEN a ELSE b

Max(a, b) == IF a > b THEN a ELSE b

Slice(s, a, b) == SubSeq(s, Max(a, 0) + 1, Min(b, Len(s)))

SliceFrom(s, a) == Slice(s, a, Len(s))

StartsWithAt(s, t, i) ==
  /\ i + Len(t) <= Len(s)
  /\ \A k \in 1..Len(t) : s[i + k] = t[k]

\* s.indexOf(t, from): the first index >= from where t occurs, or -1
IndexOf(s, t, from) ==
  LET hits == {i \in from..(Len(s) - Len(t)) : StartsWithAt(s, t, i)}
  IN  IF hits = {} THEN -1 ELSE CHOOSE i \in hits : \A j \in hits : i <= j

\* s.lastIndexOf(t, from): the last index <= from where t occurs, or -1;
\* a negative from is clamped to 0
LastIndexOf(s, t, from) ==
  LET hi   == Min(Max(from, 0), Len(s) - Len(t))
      hits == {i \in 0..hi : StartsWithAt(s, t, i)}
  IN  IF hits = {} THEN -1 ELSE CHOOSE i \in hits : \A j \in hits : i >= j

RECURSIVE TrimStartFrom(_, _)
TrimStartFrom(s, i) ==
  IF i < Len(s) /\ s[i + 1] \in WhiteSpace THEN TrimStartFrom(s, i + 1) ELSE i

RECURSIVE TrimEndFrom(_, _)
TrimEndFrom(s, j) ==
  IF j > 0 /\ s[j] \in WhiteSpace THEN TrimEndFrom(s, j - 1) ELSE j

TrimStart(s) == SliceFrom(s, TrimStartFrom(s, 0))

TrimEnd(s) == Slice(s, 0, TrimEndFrom(s, Len(s)))

Trim(s) == TrimEnd(TrimStart(s))

RECURSIVE Concat(_)
Concat(ss) == IF ss = <<>> THEN <<>> ELSE Head(ss) \o Concat(Tail(ss))

RECURSIVE Join(_, _)
Join(ss, sep) ==
  IF ss = <<>> THEN <<>>
  ELSE IF Len(ss) = 1 THEN ss[1]
  ELSE ss[1] \o sep \o Join(Tail(ss), sep)

\* ------------------------------------------------------------------------
\* Regular expressions: a backtracking matcher with the priorities of the
\* JavaScript engine (greedy quantifiers, leftmost alternative first).
\* A pattern is a tree of nodes.  Match lists every way a node matches from a
\* position, in the order in which the engine would try them: the first way
\* of the whole pattern is the match the engine reports.
\* ------------------------------------------------------------------------
NoMatch == [ok |-> FALSE]

Swap(c) ==
  IF \E k \in 1..26 : LowerLetters[k] = c
  THEN UpperLetters[CHOOSE k \in 1..26 : LowerLetters[k] = c]
  ELSE IF \E k \in 1..26 : UpperLetters[k] = c
  THEN LowerLetters[CHOOSE k \in 1..26 : UpperLetters[k] = c]
  ELSE c

Cls(cs) == [t |-> "chr", cs |-> cs]

RSeq(rs) == [t |-> "seq", rs |-> rs]

RAlt(rs) == [t |-> "alt", rs |-> rs]

ROpt(r) == [t |-> "opt", r |-> r]

RStar(r) == [t |-> "star", r |-> r]

RPlus(r) == RSeq(<<r, RStar(r)>>)

RGrp(n, r) == [t |-> "grp", n |-> n, r |-> r]

RLookahead(r) == [t |-> "la", r |-> r]

REnd == [t |-> "eos"]

RBegin == [t |-> "bos"]

\* a literal word under the i flag
Word(w) == [t |-> "word", w |-> w]

\* a literal word without the i flag
Lit(w) == RSeq([k \in 1..Len(w) |-> Cls({w[k]})])

NumGroups == 5

NoCaptures == [n \in 1..NumGroups |-> <<-1, -1>>]

\* the length of the longest run of characters of cs in s from index i
RunLength(s, i, cs) ==
  LET stops == {k \in i..(Len(s) - 1) : s[k + 1] \notin cs}
  IN  IF stops = {} THEN Len(s) - i
      ELSE (CHOOSE k \in stops : \A j \in stops : k <= j) - i

\* a greedy run of single characters: the longest run first
Runs(st, run) == [k \in 1..(run + 1) |-> [st EXCEPT !.end = @ + (run + 1 - k)]]

\* the ways that consumed at least one character
Progress(ways, from) ==
  LET Moved(w) == w.end > from
  IN  SelectSeq(ways, Moved)

\* the ways of a capture group: the group's span is recorded
Captured(ways, n, from) ==
  [k \in 1..Len(ways) |-> [ways[k] EXCEPT !.caps[n] = <<from, ways[k].end>>]]

RECURSIVE Match(_, _, _)
RECURSIVE MatchEach(_, _, _, _, _)
RECURSIVE MatchThrough(_, _, _, _, _)
\* the ways r matches from each of the positions ways[lo..hi], in order
MatchEach(r, s, ways, lo, hi) ==
  IF lo > hi THEN <<>>
  ELSE IF lo = hi THEN Match(r, s, ways[lo])
  ELSE MatchEach(r, s, ways, lo, (lo + hi) \div 2)
       \o MatchEach(r, s, ways, (lo + hi) \div 2 + 1, hi)

\* the ways the nodes rs[lo..hi] match one after another from the positions ways
MatchThrough(rs, lo, hi, s, ways) ==
  IF lo > hi \/ ways = <<>> THEN ways
  ELSE IF lo = hi THEN MatchEach(rs[lo], s, ways, 1, Len(ways))
  ELSE MatchThrough(rs, (lo + hi) \div 2 + 1, hi, s,
                    MatchThrough(rs, lo, (lo + hi) \div 2, s, ways))

\* the ways node r matches s from the position and captures st
Match(r, s, st) ==
  CASE r.t = "chr" ->
         IF st.end < Len(s) /\ s[st.end + 1] \in r.cs
         THEN <<[st EXCEPT !.end = @ + 1]>> ELSE <<>>
    [] r.t = "word" ->
         IF /\ st.end + Len(r.w) <= Len(s)
            /\ \A k \in 1..Len(r.w) : s[st.end + k] \in {r.w[k], Swap(r.w[k])}
         THEN <<[st EXCEPT !.end = @ + Len(r.w)]>> ELSE <<>>
    [] r.t = "seq" -> MatchThrough(r.rs, 1, Len(r.rs), s, <<st>>)
    [] r.t = "alt" ->
         Match(r.rs[1], s, st)
         \o (IF Len(r.rs) = 1 THEN <<>> ELSE Match(RAlt(Tail(r.rs)), s, st))
    [] r.t = "opt" -> Match(r.r, s, st) \o <<st>>
    [] r.t = "star" ->
         IF r.r.t = "chr" THEN Runs(st, RunLength(s, st.end, r.r.cs))
         ELSE MatchThrough(<<[t |-> "progress", r |-> r.r], r>>, 1, 2, s, <<st>>)
              \o <<st>>
    [] r.t = "progress" -> Progress(Match(r.r, s, st), st.end)
    [] r.t = "grp" -> Captured(Match(r.r, s, st), r.n, st.end)
    [] r.t = "la"  -> IF Match(r.r, s, st) # <<>> THEN <<st>> ELSE <<>>
    [] r.t = "eos" -> IF st.end = Len(s) THEN <<st>> ELSE <<>>
    [] r.t = "bos" -> IF st.end = 0 THEN <<st>> ELSE <<>>

\* the leftmost of the matches tried at the start indexes: tries is a set of
\* pairs <<start index, ways the pattern matches from there>>
Leftmost(tries) ==
  LET good  == {p \in tries : p[2] # <<>>}
      first == CHOOSE p \in good : \A q \in good : p[1] <= q[1]
  IN  IF good = {} THEN NoMatch
      ELSE [ok |-> TRUE, index |-> first[1], end |-> first[2][1].end,
            caps |-> first[2][1].caps]

\* regex.exec(s): the leftmost match, as [ok, index, end, caps]
Exec(re, s) ==
  Leftmost({<<i, Match(re, s, [end |-> i, caps |-> NoCaptures])>> : i \in 0..Len(s)})

\* match[n], or Undefined when group n did not take part in the match
Group(m, s, n) ==
  IF m.caps[n][1] < 0 THEN Undef ELSE Slice(s, m.caps[n][1], m.caps[n][2])

\* match[0]
Matched(m, s) == Slice(s, m.index, m.end)

\* ------------------------------------------------------------------------
\* Parser.splitIntoStatements
\* ------------------------------------------------------------------------
AsciiLetters == Letters

DOLLAR_QUOTE_REGEX ==
  RSeq(<<RBegin, Cls({"$"}),
         ROpt(RSeq(<<Cls(AsciiLetters \cup {"_"}),
                     RStar(Cls(AsciiLetters \cup Digits \cup {"_"}))>>)),
         Cls({"$"})>>)

\* the local variables of splitIntoStatements before the loop
ScanInit ==
  [ statements       |-> <<>>,
    currentStatement |-> <<>>,
    pos              |-> 0,
    inDashComment    |-> FALSE,
    inBlockComment   |-> FALSE,
    inSingleQuote    |-> FALSE,
    inDoubleQuote    |-> FALSE ]

\* the quote flags after the toggles of the final else branch
SingleAfter(t, char) ==
  IF ~t.inDoubleQuote /\ char = "'" THEN ~t.inSingleQuote ELSE t.inSingleQuote

DoubleAfter(t, char) ==
  IF ~(~t.inDoubleQuote /\ char = "'") /\ ~t.inSingleQuote /\ char = "\""
  THEN ~t.inDoubleQuote ELSE t.inDoubleQuote

\* match[0], or Undef when there is no match
MatchedOrUndef(m, s) == IF m.ok THEN Matched(m, s) ELSE Undef

\* match[0] of DOLLAR_QUOTE_REGEX.exec(content.slice(pos)), or Undef
DollarQuoteTag(content, pos) ==
  MatchedOrUndef(Exec(DOLLAR_QUOTE_REGEX, SliceFrom(content, pos)),
                 SliceFrom(content, pos))

\* content.indexOf(dollarQuoteTag, pos + dollarQuoteTag.length)
ClosePos(content, pos, dollarQuoteTag) ==
  IndexOf(content, dollarQuoteTag, pos + Len(dollarQuoteTag))

\* a separator test that ignores the quote flags
AtSeparatorIgnoringQuotes(t, char, separator) == char = separator

\* the innermost test of the loop body: the character ends a statement
AtSeparator(t, char, separator) ==
  ~SingleAfter(t, char) /\ ~DoubleAfter(t, char) /\ char = separator

\* which branch of the loop body runs at the current position, given the
\* dollar-quote tag found there
BranchWith(content, separator, t, dollarQuoteTag) ==
  LET char     == CharAt(content, t.pos)
      nextChar == CharAt(content, t.pos + 1)
  IN  IF char = "$" THEN
        IF dollarQuoteTag # Undef THEN
          IF ClosePos(content, t.pos, dollarQuoteTag) # -1
          THEN "dollarClosed" ELSE "dollarUnclosed"
        ELSE "dollarChar"
      ELSE IF ~t.inSingleQuote /\ ~t.inDoubleQuote
              /\ ~t.inBlockComment /\ char = "-" /\ nextChar = "-"
        THEN "dashStart"
      ELSE IF ~t.inSingleQuote /\ ~t.inDoubleQuote
              /\ ~t.inDashComment /\ char = "/" /\ nextChar = "*"
        THEN "blockStart"
      ELSE IF t.inDashComment THEN "dashChar"
      ELSE IF t.inBlockComment THEN
        IF char = "*" /\ nextChar = "/" THEN "blockEnd" ELSE "blockChar"
      ELSE IF AtSeparator(t, char, separator) THEN "separator"
      ELSE "char"

Branch(content, separator, t) ==
  BranchWith(content, separator, t, DollarQuoteTag(content, t.pos))

\* currentStatement += text; pos += text.length
Consume(t, text) ==
  [t EXCEPT !.currentStatement = @ \o text, !.pos = @ + Len(text)]

\* currentStatement += content.slice(pos, closePos + dollarQuoteTag.length);
\* pos = closePos + dollarQuoteTag.length
ConsumeSpan(content, t, dollarQuoteTag) ==
  Consume(t, Slice(content, t.pos,
                   ClosePos(content, t.pos, dollarQuoteTag) + Len(dollarQuoteTag)))

\* a closed dollar quote of which only the opening tag is consumed
DollarClosedStepTagOnly(content, t) ==
  Consume(t, DollarQuoteTag(content, t.pos))

\* the effect of each branch on the local variables
DollarClosedStep(content, t) ==
  ConsumeSpan(content, t, DollarQuoteTag(content, t.pos))

\* an unclosed dollar quote that resets the scanner to the Normal state
DollarUnclosedStepResetting(content, t) ==
  [Consume(t, DollarQuoteTag(content, t.pos))
     EXCEPT !.inDashComment = FALSE, !.inBlockComment = FALSE,
            !.inSingleQuote = FALSE, !.inDoubleQuote = FALSE]

DollarUnclosedStep(content, t) ==
  Consume(t, DollarQuoteTag(content, t.pos))

DashStartStep(t) ==
  [t EXCEPT !.inDashComment = TRUE,
            !.currentStatement = @ \o <<"-", "-">>, !.pos = @ + 2]

BlockStartStep(t) ==
  [t EXCEPT !.inBlockComment = TRUE,
            !.currentStatement = @ \o <<"/", "*">>, !.pos = @ + 2]

DashCharStep(t, char) ==
  [t EXCEPT !.inDashComment = ~(char = "\n" \/ char = "\r"),
            !.currentStatement = @ \o <<char>>, !.pos = @ + 1]

BlockEndStep(t) ==
  [t EXCEPT !.inBlockComment = FALSE,
            !.currentStatement = @ \o <<"*", "/">>, !.pos = @ + 2]

\* a separator step that pushes the statement and goes on with it
SeparatorStepKeeping(t, char) ==
  [t EXCEPT !.inSingleQuote = SingleAfter(t, char),
            !.inDoubleQuote = DoubleAfter(t, char),
            !.statements = Append(@, t.currentStatement \o <<char>>),
            !.currentStatement = @ \o <<char>>, !.pos = @ + 1]

SeparatorStep(t, char) ==
  [t EXCEPT !.inSingleQuote = SingleAfter(t, char),
            !.inDoubleQuote = DoubleAfter(t, char),
            !.statements = Append(@, t.currentStatement \o <<char>>),
            !.currentStatement = <<>>, !.pos = @ + 1]

CharStep(t, char) ==
  [t EXCEPT !.inSingleQuote = SingleAfter(t, char),
            !.inDoubleQuote = DoubleAfter(t, char),
            !.currentStatement = @ \o <<char>>, !.pos = @ + 1]

AppendCharStep(t, char) ==
  [t EXCEPT !.currentStatement = @ \o <<char>>, !.pos = @ + 1]

\* the effect of branch b
StepOf(b, content, t, char) ==
  CASE b = "dollarClosed"   -> DollarClosedStep(content, t)
    [] b = "dollarUnclosed" -> DollarUnclosedStep(content, t)
    [] b = "dollarChar"     -> AppendCharStep(t, char)
    [] b = "dashStart"      -> DashStartStep(t)
    [] b = "blockStart"     -> BlockStartStep(t)
    [] b = "dashChar"       -> DashCharStep(t, char)
    [] b = "blockEnd"       -> BlockEndStep(t)
    [] b = "blockChar"      -> AppendCharStep(t, char)
    [] b = "separator"      -> SeparatorStep(t, char)
    [] b = "char"           -> CharStep(t, char)

\* one iteration of the while loop
ScanStep(content, separator, t) ==
  StepOf(Branch(content, separator, t), content, t, CharAt(content, t.pos))

\* an end of input that forgets the remainder
ScanFinishDroppingRemainder(t) == t.statements

\* the code after the loop: a non-empty remainder is the last statement
ScanFinish(t) ==
  IF t.currentStatement # <<>>
  THEN Append(t.statements, t.currentStatement) ELSE t.statements

\* n iterations of the while loop from t, or as many as the loop makes
RECURSIVE Iterations(_, _, _, _)
Iterations(content, separator, t, n) ==
  IF n = 0 \/ t.pos >= Len(content) THEN t
  ELSE IF n = 1 THEN ScanStep(content, separator, t)
  ELSE Iterations(content, separator,
                  Iterations(content, separator, t, n \div 2), n - n \div 2)

\* the while loop and the code after it: every iteration moves pos forward,
\* so that the loop is over within Len(content) iterations
ScanLoop(content, separator, t) ==
  ScanFinish(Iterations(content, separator, t, Len(content)))

splitIntoStatements(content, separator) == ScanLoop(content, separator, ScanInit)

\* ------------------------------------------------------------------------
\* The matchers of the classifier
\* ------------------------------------------------------------------------
\* the keywords of the patterns; all patterns carry the i flag
kwCREATE == Word(<<"C","R","E","A","T","E">>)

kwSCHEMA == Word(<<"S","C","H","E","M","A">>)

kwEXTENSION == Word(<<"E","X","T","E","N","S","I","O","N">>)

kwIF == Word(<<"I","F">>)

kwNOT == Word(<<"N","O","T">>)

kwEXISTS == Word(<<"E","X","I","S","T","S">>)

kwWITH == Word(<<"W","I","T","H">>)

kwTYPE == Word(<<"T","Y","P","E">>)

kwDOMAIN == Word(<<"D","O","M","A","I","N">>)

kwFUNCTION == Word(<<"F","U","N","C","T","I","O","N">>)

kwPROCEDURE == Word(<<"P","R","O","C","E","D","U","R","E">>)

kwUNLOGGED == Word(<<"U","N","L","O","G","G","E","D">>)

kwTABLE == Word(<<"T","A","B","L","E">>)

kwALTER == Word(<<"A","L","T","E","R">>)

kwONLY == Word(<<"O","N","L","Y">>)

kwCOLUMN == Word(<<"C","O","L","U","M","N">>)

kwADD == Word(<<"A","D","D">>)

kwGENERATED == Word(<<"G","E","N","E","R","A","T","E","D">>)

kwALWAYS == Word(<<"A","L","W","A","Y","S">>)

kwBY == Word(<<"B","Y">>)

kwDEFAULT == Word(<<"D","E","F","A","U","L","T">>)

kwAS == Word(<<"A","S">>)

kwIDENTITY == Word(<<"I","D","E","N","T","I","T","Y">>)

kwSEQUENCE == Word(<<"S","E","Q","U","E","N","C","E">>)

kwNAME == Word(<<"N","A","M","E">>)

kwRECURSIVE == Word(<<"R","E","C","U","R","S","I","V","E">>)

kwMATERIALIZED == Word(<<"M","A","T","E","R","I","A","L","I","Z","E","D">>)

kwVIEW == Word(<<"V","I","E","W">>)

kwCONSTRAINT == Word(<<"C","O","N","S","T","R","A","I","N","T">>)

kwUNIQUE == Word(<<"U","N","I","Q","U","E">>)

kwINDEX == Word(<<"I","N","D","E","X">>)

kwON == Word(<<"O","N">>)

kwNULL == Word(<<"N","U","L","L">>)

\* \s+ and \s*
Ws1 == RPlus(Cls(WhiteSpace))

Ws0 == RStar(Cls(WhiteSpace))

\* (?:[_\p{L}][_\p{L}\p{N}$]*|"(?:[^"]|"")+")
IDENTIFIER_PATTERN ==
  RAlt(<<RSeq(<<Cls(Letters \cup {"_"}),
                RStar(Cls(Letters \cup Digits \cup {"_", "$"}))>>),
         RSeq(<<Cls({"\""}),
                RPlus(RAlt(<<Cls(Chars \ {"\""}), RSeq(<<Cls({"\""}), Cls({"\""})>>)>>)),
                Cls({"\""})>>)>>)

\* (?:(IDENT)\.)?(IDENT) with capture groups g1 (schema) and g2 (object)
SCHEMA_QUALIFIED_OBJECT_PATTERN(g1, g2) ==
  RSeq(<<ROpt(RSeq(<<RGrp(g1, IDENTIFIER_PATTERN), Cls({"."})>>)),
         RGrp(g2, IDENTIFIER_PATTERN)>>)

DEFAULT_SCHEMA == <<"p", "u", "b", "l", "i", "c">>

\* the text a template literal makes of a value
Str(x) == IF x = Undef THEN <<"u", "n", "d", "e", "f", "i", "n", "e", "d">> ELSE x

\* a qualified name that leaves the schema out
makeQualifiedNameBare(schema, name) == Str(name)

makeQualifiedName(schema, name) == Str(schema) \o <<".">> \o Str(name)

\* a ?? b
OrElse(a, b) == IF a = Undef THEN b ELSE a

SchemaRegex == RSeq(<<kwCREATE, Ws1, kwSCHEMA, Ws1, RGrp(1, IDENTIFIER_PATTERN)>>)

ExtensionRegex ==
  RSeq(<<kwCREATE, Ws1, kwEXTENSION, Ws1,
         ROpt(RSeq(<<kwIF, Ws1, kwNOT, Ws1, kwEXISTS, Ws1>>)),
         RGrp(1, IDENTIFIER_PATTERN),
         ROpt(RSeq(<<ROpt(RSeq(<<Ws1, kwWITH>>)), ROpt(RSeq(<<Ws1, kwSCHEMA>>)),
                     Ws1, RGrp(2, IDENTIFIER_PATTERN)>>))>>)

TypeRegex ==
  RSeq(<<kwCREATE, Ws1, kwTYPE, Ws1, SCHEMA_QUALIFIED_OBJECT_PATTERN(1, 2)>>)

DomainRegex ==
  RSeq(<<kwCREATE, Ws1, kwDOMAIN, Ws1, SCHEMA_QUALIFIED_OBJECT_PATTERN(1, 2)>>)

FunctionRegex ==
  RSeq(<<kwCREATE, Ws1, kwFUNCTION, Ws1, SCHEMA_QUALIFIED_OBJECT_PATTERN(1, 2)>>)

ProcedureRegex ==
  RSeq(<<kwCREATE, Ws1, kwPROCEDURE, Ws1, SCHEMA_QUALIFIED_OBJECT_PATTERN(1, 2)>>)

TableRegex ==
  RSeq(<<kwCREATE, Ws1, ROpt(RSeq(<<kwUNLOGGED, Ws1>>)), kwTABLE, Ws1,
         SCHEMA_QUALIFIED_OBJECT_PATTERN(1, 2)>>)

\* flags isu: the dot matches every character
SequenceRegex ==
  RSeq(<<kwALTER, Ws1, kwTABLE, Ws1, ROpt(RSeq(<<kwONLY, Ws1>>)),
         SCHEMA_QUALIFIED_OBJECT_PATTERN(1, 2),
         Ws1, kwALTER, Ws1, ROpt(RSeq(<<kwCOLUMN, Ws1>>)),
         RGrp(3, IDENTIFIER_PATTERN), Ws1, kwADD, Ws1,
         kwGENERATED, Ws1,
         RAlt(<<kwALWAYS, RSeq(<<kwBY, Ws1, kwDEFAULT>>)>>),
         Ws1, kwAS, Ws1, kwIDENTITY, Ws1,
         Cls({"("}), Ws0, kwSEQUENCE, Ws1, kwNAME, Ws1,
         SCHEMA_QUALIFIED_OBJECT_PATTERN(4, 5),
         RStar(Cls(Chars)), Cls({")"}), Ws0, Cls({";"}),
         RStar(Cls(Chars \ {";"})), REnd>>)

ViewRegex ==
  RSeq(<<kwCREATE, Ws1,
         ROpt(RAlt(<<RSeq(<<kwRECURSIVE, Ws1>>), RSeq(<<kwMATERIALIZED, Ws1>>)>>)),
         kwVIEW, Ws1, SCHEMA_QUALIFIED_OBJECT_PATTERN(1, 2)>>)

ConstraintRegex ==
  RSeq(<<kwALTER, Ws1, kwTABLE, Ws1, ROpt(RSeq(<<kwONLY, Ws1>>)),
         SCHEMA_QUALIFIED_OBJECT_PATTERN(1, 2),
         Ws1, kwADD, Ws1, kwCONSTRAINT, Ws1, RGrp(3, IDENTIFIER_PATTERN)>>)

IndexRegex ==
  RSeq(<<kwCREATE, Ws1, ROpt(RSeq(<<kwUNIQUE, Ws1>>)), kwINDEX, Ws1,
         ROpt(RSeq(<<RGrp(1, IDENTIFIER_PATTERN), Ws1>>)),
         kwON, Ws1, ROpt(RSeq(<<kwONLY, Ws1>>)),
         SCHEMA_QUALIFIED_OBJECT_PATTERN(2, 3)>>)

\* an extractDefinition that forgets the text before the match
extractDefinitionDroppingPrefix(match, statement) ==
  [definition |-> SliceFrom(statement, match.index), residual |-> Undef]

\* BaseParser.extractDefinition
extractDefinition(match, statement) ==
  IF match.index # 0
  THEN [definition |-> SliceFrom(statement, match.index),
        residual   |-> Slice(statement, 0, match.index)]
  ELSE [definition |-> statement, residual |-> Undef]

\* GeneralParser.parse
GeneralParse(type, match, statement) ==
  LET schema == OrElse(Group(match, statement, 1), DEFAULT_SCHEMA)
      name   == Group(match, statement, 2)
  IN  [type |-> type, schema |-> schema, name |-> name,
       qualifiedName |-> makeQualifiedName(schema, name)]
      @@ extractDefinition(match, statement)

\* SchemaParser.parse
SchemaParse(match, statement) ==
  LET schema == Group(match, statement, 1)
  IN  [type |-> "schema", schema |-> schema, name |-> schema]
      @@ extractDefinition(match, statement)

\* ExtensionParser.parse
ExtensionParse(match, statement) ==
  LET schema == OrElse(Group(match, statement, 2), DEFAULT_SCHEMA)
      name   == Group(match, statement, 1)
  IN  [type |-> "extension", schema |-> schema, name |-> name,
       qualifiedName |-> makeQualifiedName(schema, name)]
      @@ extractDefinition(match, statement)

\* SequenceParser.parse
SequenceParse(match, statement) ==
  LET schema == OrElse(Group(match, statement, 4), DEFAULT_SCHEMA)
      name   == Group(match, statement, 5)
  IN  [type |-> "sequence", schema |-> schema, name |-> name,
       qualifiedName |-> makeQualifiedName(schema, name),
       tableSchema |-> OrElse(Group(match, statement, 1), DEFAULT_SCHEMA),
       table |-> Group(match, statement, 2),
       column |-> Group(match, statement, 3)]
      @@ extractDefinition(match, statement)

\* ConstraintParser.parse
ConstraintParse(match, statement) ==
  LET schema == OrElse(Group(match, statement, 1), DEFAULT_SCHEMA)
      name   == Group(match, statement, 3)
  IN  [type |-> "constraint", schema |-> schema, name |-> name,
       qualifiedName |-> makeQualifiedName(schema, name),
       table |-> Group(match, statement, 2)]
      @@ extractDefinition(match, statement)

\* IndexParser.parse
IndexParse(match, statement) ==
  LET schema == OrElse(Group(match, statement, 2), DEFAULT_SCHEMA)
      name   == Group(match, statement, 1)
  IN  [type |-> "index", schema |-> schema, name |-> name,
       qualifiedName |-> makeQualifiedName(schema, name),
       table |-> Group(match, statement, 3)]
      @@ extractDefinition(match, statement)

\* a registry that tries the attachable matchers before the table matcher
RegistryAttachablesFirst ==
  << [type |-> "schema",     regex |-> SchemaRegex],
     [type |-> "extension",  regex |-> ExtensionRegex],
     [type |-> "type",       regex |-> TypeRegex],
     [type |-> "domain",     regex |-> DomainRegex],
     [type |-> "function",   regex |-> FunctionRegex],
     [type |-> "procedure",  regex |-> ProcedureRegex],
     [type |-> "sequence",   regex |-> SequenceRegex],
     [type |-> "constraint", regex |-> ConstraintRegex],
     [type |-> "index",      regex |-> IndexRegex],
     [type |-> "table",      regex |-> TableRegex],
     [type |-> "view",       regex |-> ViewRegex] >>

\* the matchers in the order of the registry
PARSER_REGISTRY ==
  << [type |-> "schema",     regex |-> SchemaRegex],
     [type |-> "extension",  regex |-> ExtensionRegex],
     [type |-> "type",       regex |-> TypeRegex],
     [type |-> "domain",     regex |-> DomainRegex],
     [type |-> "function",   regex |-> FunctionRegex],
     [type |-> "procedure",  regex |-> ProcedureRegex],
     [type |-> "table",      regex |-> TableRegex],
     [type |-> "sequence",   regex |-> SequenceRegex],
     [type |-> "view",       regex |-> ViewRegex],
     [type |-> "constraint", regex |-> ConstraintRegex],
     [type |-> "index",      regex |-> IndexRegex] >>

\* parser.parse(match, statement) of the matcher of the given type
ParserParse(type, match, statement) ==
  CASE type = "schema"     -> SchemaParse(match, statement)
    [] type = "extension"  -> ExtensionParse(match, statement)
    [] type = "sequence"   -> SequenceParse(match, statement)
    [] type = "constraint" -> ConstraintParse(match, statement)
    [] type = "index"      -> IndexParse(match, statement)
    [] OTHER               -> GeneralParse(type, match, statement)

\* the absent result of parseStatement
NoParse == [type |-> "none"]

\* Parser.parseStatement: the first matcher of the registry, from index k on,
\* whose pattern matches
RECURSIVE ParseFrom(_, _, _)
\* the k-th matcher, tried: its result when it matched, else the matchers
\* after it
ParseWith(registry, k, statement, match) ==
  IF match.ok THEN ParserParse(registry[k].type, match, statement)
  ELSE ParseFrom(registry, k + 1, statement)

ParseFrom(registry, k, statement) ==
  IF k > Len(registry) THEN NoParse
  ELSE ParseWith(registry, k, statement, Exec(registry[k].regex, statement))

parseStatement(statement) == ParseFrom(PARSER_REGISTRY, 1, statement)

\* ------------------------------------------------------------------------
\* The attachment engine
\* ------------------------------------------------------------------------
\* CREATE\s+(?:UNLOGGED\s+)?TABLE\s+ SCHEMA_QUALIFIED_OBJECT_PATTERN \s*(?=\()
TABLE_HEADER_REGEX ==
  RSeq(<<kwCREATE, Ws1, ROpt(RSeq(<<kwUNLOGGED, Ws1>>)), kwTABLE, Ws1,
         SCHEMA_QUALIFIED_OBJECT_PATTERN(1, 2), Ws0, RLookahead(Cls({"("}))>>)

SEQUENCE_HEADER_REGEX ==
  RSeq(<<kwALTER, Ws1, kwTABLE, Ws1, ROpt(RSeq(<<kwONLY, Ws1>>)),
         SCHEMA_QUALIFIED_OBJECT_PATTERN(1, 2),
         Ws1, kwALTER, Ws1, ROpt(RSeq(<<kwCOLUMN, Ws1>>)),
         IDENTIFIER_PATTERN, Ws1, kwADD, Ws1>>)

\* flags iu: the dot matches every character but a line terminator
CONSTRAINT_DEFINITION_REGEX ==
  RSeq(<<kwADD, Ws1, kwCONSTRAINT, Ws1, RGrp(1, IDENTIFIER_PATTERN), Ws1,
         RGrp(2, RPlus(Cls(Chars \ {"\n", "\r"}))), Cls({";"}),
         RStar(Cls(Chars \ {";"})), REnd>>)

\* [-/\\^$*+?.()|[\]{}]
UNSAFE_REGEX_CHARACTERS ==
  {"-", "/", "\\", "^", "$", "*", "+", "?", ".", "(", ")", "|", "[", "]", "{", "}"}

\* /\s+(?:NOT\s+)?NULL\s*$/i
NotNullRegex ==
  RSeq(<<Ws1, ROpt(RSeq(<<kwNOT, Ws1>>)), kwNULL, Ws0, REnd>>)

\* /\s*;\s*$/
TerminatorRegex == RSeq(<<Ws0, Cls({";"}), Ws0, REnd>>)

\* /\s{2,}|\n+/g
BreaksRegex ==
  RAlt(<<RSeq(<<Cls(WhiteSpace), Cls(WhiteSpace), RStar(Cls(WhiteSpace))>>),
         RPlus(Cls({"\n"}))>>)

\* /(\(\s+|\s+\))+/g
BracketSpaceRegex ==
  RPlus(RAlt(<<RSeq(<<Cls({"("}), Ws1>>), RSeq(<<Ws1, Cls({")"})>>)>>))

\* /[,\s]+$/
TrailingCommaRegex == RSeq(<<RPlus(Cls(WhiteSpace \cup {","})), REnd>>)

\* s with the match m replaced by with
ReplaceMatch(m, s, with) ==
  IF m.ok THEN Slice(s, 0, m.index) \o with \o SliceFrom(s, m.end) ELSE s

\* s.replace(re, with) for a pattern without the g flag
Replace(re, s, with) == ReplaceMatch(Exec(re, s), s, with)

\* s.replace(re, ...) for a pattern with the g flag whose matches are never
\* empty; mode "space" puts a blank for each match, mode "trim" the trimmed match
RECURSIVE ReplaceAll(_, _, _)
ReplaceNext(re, s, mode, m) ==
  IF ~m.ok THEN s
  ELSE Slice(s, 0, m.index)
       \o (IF mode = "space" THEN <<" ">> ELSE Trim(Matched(m, s)))
       \o ReplaceAll(re, SliceFrom(s, m.end), mode)

ReplaceAll(re, s, mode) == ReplaceNext(re, s, mode, Exec(re, s))

\* column.replace(UNSAFE_REGEX_CHARACTERS_REGEX, '\\$&'): the pattern has no
\* g flag, so the first unsafe character only is escaped
RECURSIVE EscapeFirstUnsafe(_, _)
EscapeFirstUnsafe(column, k) ==
  IF k > Len(column) THEN column
  ELSE IF column[k] \in UNSAFE_REGEX_CHARACTERS
       THEN SubSeq(column, 1, k - 1) \o <<"\\", column[k]>>
            \o SubSeq(column, k + 1, Len(column))
       ELSE EscapeFirstUnsafe(column, k + 1)

\* the pattern text getTableColumnRegex builds
ColumnPattern(column) ==
  <<"^", "\\", "s", "*">> \o EscapeFirstUnsafe(column, 1) \o <<"\\", "s", "+">>

\* new RegExp(pattern), without flags: the pattern text is compiled as the
\* engine compiles it.  CompileSeq reads terms from position i up to a closing
\* parenthesis (when depth > 0) or to the end; it yields the nodes read, the
\* position after them, and err when the engine raises a SyntaxError.
SyntaxError == [err |-> TRUE]

\* the quantifier at position i of the pattern, with its lazy mark, applied
\* to an atom
Quantified(pattern, i, atom) ==
  LET lazy == IF CharAt(pattern, i + 1) = "?" THEN 1 ELSE 0
  IN  IF CharAt(pattern, i) = "*"
        THEN [node |-> RStar(atom), next |-> i + 1 + lazy]
      ELSE IF CharAt(pattern, i) = "+"
        THEN [node |-> RPlus(atom), next |-> i + 1 + lazy]
      ELSE IF CharAt(pattern, i) = "?"
        THEN [node |-> ROpt(atom), next |-> i + 1 + lazy]
      ELSE [node |-> atom, next |-> i]

RECURSIVE CompileSeq(_, _, _, _)
CompileSeq(pattern, i, depth, nodes) ==
  LET c == CharAt(pattern, i)
  IN  IF i >= Len(pattern) THEN
        IF depth > 0 THEN SyntaxError   \* unterminated group
        ELSE [err |-> FALSE, nodes |-> nodes, next |-> i]
      ELSE IF c = ")" THEN
        IF depth = 0 THEN SyntaxError   \* unmatched ')'
        ELSE [err |-> FALSE, nodes |-> nodes, next |-> i + 1]
      ELSE IF c \in {"*", "+", "?"} THEN SyntaxError   \* nothing to repeat
      ELSE IF c = "^" THEN
        IF CharAt(pattern, i + 1) \in {"*", "+", "?"} THEN SyntaxError
        ELSE CompileSeq(pattern, i + 1, depth, Append(nodes, RBegin))
      ELSE IF c = "$" THEN
        IF CharAt(pattern, i + 1) \in {"*", "+", "?"} THEN SyntaxError
        ELSE CompileSeq(pattern, i + 1, depth, Append(nodes, REnd))
      ELSE IF c = "(" THEN
        LET inner == CompileSeq(pattern, i + 1, depth + 1, <<>>)
        IN  IF inner.err THEN SyntaxError
            ELSE LET q == Quantified(pattern, inner.next, RSeq(inner.nodes))
                 IN  CompileSeq(pattern, q.next, depth, Append(nodes, q.node))
      ELSE IF c = "\\" THEN
        IF i + 1 >= Len(pattern) THEN SyntaxError   \* \ at end of pattern
        ELSE LET atom == IF pattern[i + 2] = "s" THEN Cls(WhiteSpace)
                         ELSE Cls({pattern[i + 2]})
                 q    == Quantified(pattern, i + 2, atom)
             IN  CompileSeq(pattern, q.next, depth, Append(nodes, q.node))
      ELSE
        LET atom == IF c = "." THEN Cls(Chars \ {"\n", "\r"}) ELSE Cls({c})
            q    == Quantified(pattern, i + 1, atom)
        IN  CompileSeq(pattern, q.next, depth, Append(nodes, q.node))

Compiled(c) ==
  IF c.err THEN SyntaxError ELSE [err |-> FALSE, regex |-> RSeq(c.nodes)]

\* new RegExp(pattern): [err |-> TRUE] or [err |-> FALSE, regex |-> ...]
NewRegExp(pattern) == Compiled(CompileSeq(pattern, 0, 0, <<>>))

\* Parser.TABLE_COLUMN_REGEX_CACHE is a function from pattern texts to compiled
\* patterns.  getTableColumnRegex yields the compiled pattern and the cache
\* after the call; when the compilation raises, the cache is left as it was.
CacheSet(cache, pattern, compiled) ==
  IF compiled.err THEN [err |-> TRUE, cache |-> cache]
  ELSE [err |-> FALSE, regex |-> compiled.regex,
        cache |-> (pattern :> compiled.regex) @@ cache]

\* a cache that answers with an entry it holds, whatever the pattern
CacheGetStale(cache, pattern) ==
  IF DOMAIN cache # {}
  THEN [err |-> FALSE,
        regex |-> cache[CHOOSE q \in DOMAIN cache : pattern \in DOMAIN cache => q = pattern],
        cache |-> cache]
  ELSE CacheSet(cache, pattern, NewRegExp(pattern))

CacheGet(cache, pattern) ==
  IF pattern \in DOMAIN cache
  THEN [err |-> FALSE, regex |-> cache[pattern], cache |-> cache]
  ELSE CacheSet(cache, pattern, NewRegExp(pattern))

getTableColumnRegex(column, cache) == CacheGet(cache, ColumnPattern(column))

\* statements.findIndex((statement) => columnRegex.test(statement)), 1-based;
\* 0 when no statement matches
RECURSIVE FindIndex(_, _, _)
FindIndex(list, regex, k) ==
  IF k > Len(list) THEN 0
  ELSE IF Exec(regex, list[k]).ok THEN k
  ELSE FindIndex(list, regex, k + 1)

\* the sum of the lengths of the first n elements of list
RECURSIVE LengthsBefore(_, _)
LengthsBefore(list, n) ==
  IF n = 0 THEN 0 ELSE Len(list[n]) + LengthsBefore(list, n - 1)

NotFound(cache) == [threw |-> FALSE, found |-> FALSE, cache |-> cache]

\* tableDefinition.lastIndexOf(')', tableDefinition.lastIndexOf(';'))
LastParenIndex(tableDefinition) ==
  LastIndexOf(tableDefinition, <<")">>,
              LastIndexOf(tableDefinition, <<";">>, Len(tableDefinition)))

\* the column definition found: the statement without its trailing commas
\* and white space, and where it lies in the table definition
ColumnSpan(untrimmed, startPos, cache) ==
  [threw |-> FALSE, found |-> TRUE, cache |-> cache,
   definition |-> TrimStart(untrimmed),
   startPos |-> startPos + (Len(untrimmed) - Len(TrimStart(untrimmed))),
   endPos |-> startPos + Len(untrimmed)]

FoundAt(stmts, columnStatementIndex, firstParenIndex, cache) ==
  IF columnStatementIndex = 0 THEN NotFound(cache)
  ELSE ColumnSpan(Replace(TrailingCommaRegex, stmts[columnStatementIndex], <<>>),
                  firstParenIndex + 1 + LengthsBefore(stmts, columnStatementIndex - 1),
                  cache)

FindInStatements(stmts, columnRegex, firstParenIndex, cache) ==
  IF columnRegex.err THEN [threw |-> TRUE, found |-> FALSE, cache |-> cache]
  ELSE FoundAt(stmts, FindIndex(stmts, columnRegex.regex, 1), firstParenIndex,
               columnRegex.cache)

FindInTable(tableDefinition, column, cache, tableHeaderMatch, lastParenIndex) ==
  IF ~tableHeaderMatch.ok THEN NotFound(cache)
  ELSE IF lastParenIndex = -1 THEN NotFound(cache)
  ELSE FindInStatements(
         splitIntoStatements(
           Slice(tableDefinition, tableHeaderMatch.end + 1, lastParenIndex), ","),
         getTableColumnRegex(column, cache), tableHeaderMatch.end, cache)

findTableColumnDefinition(tableDefinition, column, cache) ==
  FindInTable(tableDefinition, column, cache,
              Exec(TABLE_HEADER_REGEX, tableDefinition),
              LastParenIndex(tableDefinition))

\* the text of a sequence statement as it is put after the column
SequenceText(definition, headerMatch) ==
  ReplaceAll(BracketSpaceRegex,
    ReplaceAll(BreaksRegex,
      Replace(TerminatorRegex, SliceFrom(definition, headerMatch.end), <<>>),
      "space"),
    "trim")

\* where the sequence text goes: before a trailing [NOT] NULL of the column
InsertPos(columnDefinition, notNullMatch) ==
  IF notNullMatch.ok
  THEN columnDefinition.endPos
       - (Len(columnDefinition.definition) - notNullMatch.index)
  ELSE columnDefinition.endPos

InsertAt(modifiedContent, columnDefinitionEndPos, sequenceDefinition) ==
  Slice(modifiedContent, 0, columnDefinitionEndPos) \o <<" ">>
    \o sequenceDefinition \o SliceFrom(modifiedContent, columnDefinitionEndPos)

InsertSequence(modifiedContent, sequence, columnDefinition, sequenceHeaderMatch) ==
  [threw |-> FALSE, cache |-> columnDefinition.cache,
   definition |->
     IF ~sequenceHeaderMatch.ok THEN modifiedContent
     ELSE InsertAt(modifiedContent,
                   InsertPos(columnDefinition,
                             Exec(NotNullRegex, columnDefinition.definition)),
                   SequenceText(sequence.definition, sequenceHeaderMatch))]

AttachColumn(modifiedContent, sequence, columnDefinition) ==
  IF columnDefinition.threw
  THEN [threw |-> TRUE, definition |-> modifiedContent,
        cache |-> columnDefinition.cache]
  ELSE IF ~columnDefinition.found
  THEN [threw |-> FALSE, definition |-> modifiedContent,
        cache |-> columnDefinition.cache]
  ELSE InsertSequence(modifiedContent, sequence, columnDefinition,
                      Exec(SEQUENCE_HEADER_REGEX, sequence.definition))

\* the body of the for loop of attachSequencesToTable
AttachSequence(modifiedContent, sequence, cache) ==
  AttachColumn(modifiedContent, sequence,
               findTableColumnDefinition(modifiedContent, sequence.column, cache))

\* the loop goes on unless an iteration raised
AttachNext(previous, sequence) ==
  IF previous.threw THEN previous
  ELSE AttachSequence(previous.definition, sequence, previous.cache)

\* attachSequencesToTable after the first k sequences
RECURSIVE AttachSequencesUpTo(_, _, _, _)
AttachSequencesUpTo(tableDefinition, sequences, k, cache) ==
  IF k = 0 THEN [threw |-> FALSE, definition |-> tableDefinition, cache |-> cache]
  ELSE AttachNext(AttachSequencesUpTo(tableDefinition, sequences, k - 1, cache),
                  sequences[k])

attachSequencesToTable(tableDefinition, sequences, cache) ==
  AttachSequencesUpTo(tableDefinition, sequences, Len(sequences), cache)

\* string.split('\n')
RECURSIVE SplitLines(_)
SplitLines(s) ==
  LET n == IndexOf(s, <<"\n">>, 0)
  IN  IF n = -1 THEN <<s>>
      ELSE <<Slice(s, 0, n)>> \o SplitLines(SliceFrom(s, n + 1))

\* /^[ \t]*/.exec(line)[0]
RECURSIVE LeadingBlanks(_)
LeadingBlanks(line) ==
  IF Len(line) > 0 /\ line[1] \in {" ", "\t"}
  THEN <<line[1]>> \o LeadingBlanks(Tail(line))
  ELSE <<>>

Map(list, Op(_)) == [k \in 1..Len(list) |-> Op(list[k])]

NonEmpty(ws) == Len(ws) > 0

Count(list, x) == Cardinality({k \in 1..Len(list) : list[k] = x})

\* Object.entries(freq).sort(([, a], [, b]) => b - a)[0]: the sort is stable
\* and the entries are in the order of first insertion, so the first of the
\* most frequent indents comes out
MostUsed(indents) ==
  LET best == CHOOSE k \in 1..Len(indents) :
                /\ \A j \in 1..Len(indents) :
                     Count(indents, indents[j]) <= Count(indents, indents[k])
                /\ \A j \in 1..(k - 1) :
                     Count(indents, indents[j]) < Count(indents, indents[k])
  IN  [indent |-> indents[best], count |-> Count(indents, indents[best])]

RECURSIVE gcd(_, _)
gcd(a, b) == IF b = 0 THEN a ELSE gcd(b, a % b)

\* counts.reduce(gcd)
RECURSIVE ReduceGcd(_)
ReduceGcd(counts) ==
  IF Len(counts) = 1 THEN counts[1]
  ELSE gcd(ReduceGcd(SubSeq(counts, 1, Len(counts) - 1)), counts[Len(counts)])

Repeat(c, n) == [k \in 1..n |-> c]

StartsWithSpace(ws) == ws[1] = " "

StartsWithTab(ws) == ws[1] = "\t"

\* the indent chosen from the non-empty leading blanks of the lines
IndentOf(indents, mostUsed, spaceCounts, tabCounts) ==
  IF Len(indents) = 0 THEN <<>>
  ELSE IF 2 * mostUsed.count > Len(indents) THEN mostUsed.indent
  ELSE IF Len(spaceCounts) > 0 THEN Repeat(" ", ReduceGcd(spaceCounts))
  ELSE Repeat("\t", ReduceGcd(tabCounts))

IndentAmong(indents) ==
  IndentOf(indents, MostUsed(indents),
           Map(SelectSeq(indents, StartsWithSpace), Len),
           Map(SelectSeq(indents, StartsWithTab), Len))

\* detectIndent(string).indent
detectIndent(string) ==
  IndentAmong(SelectSeq(Map(SplitLines(string), LeadingBlanks), NonEmpty))

\* `CONSTRAINT ${constraintMatch[1]} ${constraintMatch[2]}`, or the whole
\* statement when the pattern does not match
ConstraintTextOf(constraintMatch, definition) ==
  IF constraintMatch.ok
  THEN <<"C", "O", "N", "S", "T", "R", "A", "I", "N", "T", " ">>
       \o Group(constraintMatch, definition, 1)
       \o <<" ">> \o Group(constraintMatch, definition, 2)
  ELSE definition

ConstraintText(constraint) ==
  ConstraintTextOf(Exec(CONSTRAINT_DEFINITION_REGEX, constraint.definition),
                   constraint.definition)

\* a last content index that skips no white space
LastContentIndexAtParen(s, i) == i

\* the index of the last character before position i that is not white space
RECURSIVE LastContentIndex(_, _)
LastContentIndex(s, i) ==
  IF i >= 0 /\ CharAt(s, i) \in WhiteSpace THEN LastContentIndex(s, i - 1) ELSE i

\* separator + list.join(separator)
RECURSIVE PrefixEach(_, _)
PrefixEach(list, sep) ==
  IF list = <<>> THEN <<>>
  ELSE sep \o Head(list) \o PrefixEach(Tail(list), sep)

InsertConstraints(tableDefinition, constraintDefinitions, lastParenIndex) ==
  IF lastParenIndex = -1 \/ Len(constraintDefinitions) = 0 THEN tableDefinition
  ELSE Slice(tableDefinition, 0,
             LastContentIndex(tableDefinition, lastParenIndex - 1) + 1)
       \o PrefixEach(constraintDefinitions,
                     <<",", "\n">> \o detectIndent(tableDefinition))
       \o <<"\n">> \o SliceFrom(tableDefinition, lastParenIndex)

attachConstraintsToTable(tableDefinition, constraints) ==
  InsertConstraints(tableDefinition, Map(constraints, ConstraintText),
                    LastParenIndex(tableDefinition))

\* groupAttachablesByTable: the attachables filed under one key, in source
\* order; the key of a statement is makeQualifiedName(statement.schema,
\* statement.table)
GroupKey(statement) == makeQualifiedName(statement.schema, statement.table)

OfType(attachables, qualifiedTable, type) ==
  LET InGroup(st) == st.type = type /\ GroupKey(st) = qualifiedTable
  IN  SelectSeq(attachables, InGroup)

groupAttachablesByTable(attachables, qualifiedTable) ==
  [present     |-> \E k \in 1..Len(attachables) :
                     GroupKey(attachables[k]) = qualifiedTable,
   sequences   |-> OfType(attachables, qualifiedTable, "sequence"),
   constraints |-> OfType(attachables, qualifiedTable, "constraint"),
   indexes     |-> OfType(attachables, qualifiedTable, "index")]

Definition(statement) == statement.definition

\* the body of the for loop of attachObjectsToTables for one object, in its
\* three steps
SetSequences(object, group, attached) ==
  [threw  |-> attached.threw,
   object |-> [object EXCEPT !.sequences = Map(group.sequences, Definition),
                             !.definition = attached.definition],
   cache  |-> attached.cache]

WithSequences(object, group, cache) ==
  IF Len(group.sequences) = 0
  THEN [threw |-> FALSE, object |-> object, cache |-> cache]
  ELSE SetSequences(object, group,
         attachSequencesToTable(object.definition, group.sequences, cache))

WithConstraints(object, group) ==
  IF Len(group.constraints) = 0 THEN object
  ELSE [object EXCEPT !.constraints = Map(group.constraints, Definition),
                      !.definition = attachConstraintsToTable(@, group.constraints)]

WithIndexes(object, group) ==
  IF Len(group.indexes) = 0 THEN object
  ELSE [object EXCEPT !.indexes = Map(group.indexes, Definition),
                      !.definition = @ \o <<"\n", "\n">>
                                       \o Join(Map(group.indexes, Definition), <<"\n">>)]

\* the last two steps in the other order: indexes, then constraints
AfterSequencesIndexesFirst(first, group) ==
  IF first.threw THEN first
  ELSE [threw |-> FALSE, cache |-> first.cache,
        object |-> WithConstraints(WithIndexes(first.object, group), group)]

AfterSequences(first, group) ==
  IF first.threw THEN first
  ELSE [threw |-> FALSE, cache |-> first.cache,
        object |-> WithIndexes(WithConstraints(first.object, group), group)]

AttachGroup(object, group, cache) ==
  IF object.type \notin {"table", "view"} \/ ~group.present
  THEN [threw |-> FALSE, object |-> object, cache |-> cache]
  ELSE AfterSequences(WithSequences(object, group, cache), group)

AttachToObject(object, attachables, cache) ==
  AttachGroup(object,
              groupAttachablesByTable(attachables,
                makeQualifiedName(object.schema, object.name)),
              cache)

\* the objects with the k-th one replaced, unless the attachment raised
PutObject(previous, k, one) ==
  IF one.threw
  THEN [threw |-> TRUE, objects |-> previous.objects, cache |-> one.cache]
  ELSE [threw |-> FALSE, objects |-> [previous.objects EXCEPT ![k] = one.object],
        cache |-> one.cache]

\* the loop goes on unless an iteration raised
AttachNextObject(previous, k, attachables) ==
  IF previous.threw THEN previous
  ELSE PutObject(previous, k,
                 AttachToObject(previous.objects[k], attachables, previous.cache))

\* attachObjectsToTables after the first k objects: the objects after
\* attachment, or threw when getTableColumnRegex raised on the way
RECURSIVE AttachUpTo(_, _, _, _)
AttachUpTo(objs, k, attachables, cache) ==
  IF k = 0 THEN [threw |-> FALSE, objects |-> objs, cache |-> cache]
  ELSE AttachNextObject(AttachUpTo(objs, k - 1, attachables, cache), k, attachables)

attachObjectsToTables(objs, attachables, cache) ==
  AttachUpTo(objs, Len(objs), attachables, cache)

\* ------------------------------------------------------------------------
\* State
\* ------------------------------------------------------------------------
VARIABLES
  content,      \* the text handed to splitIntoStatements or to parse
  separator,    \* the separator argument of splitIntoStatements
  scan,         \* the local variables of splitIntoStatements
  statements,   \* the array splitIntoStatements returned
  pc,           \* where the running call is
  lastBranch,   \* the branch the last loop iteration took
  flagsBefore,  \* the four flags before the last loop iteration
  cuts,         \* the scan states in which a statement was pushed in the loop
  spans,        \* the dollar-quoted spans consumed: <<start, end>>
  idx,          \* parse: the index of the statement the for loop is at
  trimmed,      \* parse: the local trimmed of the last iteration
  parsed,       \* parse: the local parsed of the last iteration
  TABLE_COLUMN_REGEX_CACHE,  \* the static map of compiled column patterns
  objects,      \* parse: the objects array
  attachableStatements,  \* parse: the attachableStatements array
  residual,     \* parse: the residual array
  fragments,    \* parse: what each statement was routed to, in source order
  result,       \* parse: the returned ParsedResult
  files,        \* the files under the output directory: path -> content
  directories,  \* the directories made under the output directory
  writers,      \* writeObjects: where the write of each object is
  summary       \* writeObjects: the WriteObjectsSummary

splitVars == <<scan, lastBranch, flagsBefore, cuts, spans>>

parseVars == <<TABLE_COLUMN_REGEX_CACHE, idx, trimmed, parsed, objects, attachableStatements, residual,
               fragments, result>>

writeVars == <<files, directories, writers, summary>>

vars == <<content, separator, statements, pc, splitVars, parseVars, writeVars>>

\* an output directory in which nothing was written, and no call of
\* writeObjects
NoFiles == [p \in {} |-> <<>>]

NoSummary == [totalObjects |-> 0, writtenObjects |-> 0, errors |-> <<>>,
              residualWritten |-> FALSE]

NoWrites ==
  /\ files = NoFiles
  /\ directories = {}
  /\ writers = <<>>
  /\ summary = NoSummary

\* parse has not returned
\* the cache of a fresh process
EmptyCache == [p \in {} |-> 0]

NoResult == [returned |-> FALSE]

Flags(t) == <<t.inDashComment, t.inBlockComment, t.inSingleQuote, t.inDoubleQuote>>

Normal == <<FALSE, FALSE, FALSE, FALSE>>

\* ------------------------------------------------------------------------
\* Inputs of the tokenizer: texts built from lexically significant pieces
\* ------------------------------------------------------------------------
SplitPieces(sep) ==
  { <<"$", "$">>, <<"$", "t", "$">>, <<"$", "T", "$">>, <<"-", "-">>,
    <<"/", "*">>, <<"*", "/">>, <<"'">>, <<"\"">>, <<"\n">>, <<sep>> }

RECURSIVE Texts(_, _)
Texts(pieces, n) ==
  IF n = 0 THEN {<<>>}
  ELSE LET shorter == Texts(pieces, n - 1)
       IN  shorter \cup {p \o t : p \in pieces, t \in shorter}

SplitInputs(sep) == Texts(SplitPieces(sep), MaxSplitPieces)

\* ------------------------------------------------------------------------
\* splitIntoStatements as a process: one action per branch of the loop
\* ------------------------------------------------------------------------
InitSplit ==
  /\ separator \in {";", ","}
  /\ content \in SplitInputs(separator)
  /\ scan = ScanInit
  /\ statements = <<>>
  /\ pc = "scan"
  /\ lastBranch = "none"
  /\ flagsBefore = Normal
  /\ cuts = {}
  /\ spans = {}
  /\ idx = 0
  /\ trimmed = <<>>
  /\ parsed = NoParse
  /\ objects = <<>>
  /\ attachableStatements = <<>>
  /\ residual = <<>>
  /\ fragments = <<>>
  /\ result = NoResult
  /\ TABLE_COLUMN_REGEX_CACHE = EmptyCache
  /\ NoWrites

Iterate(b) ==
  /\ Branch(content, separator, scan) = b
  /\ scan' = ScanStep(content, separator, scan)
  /\ lastBranch' = b
  /\ flagsBefore' = Flags(scan)
  /\ cuts' = IF Len(scan'.statements) > Len(scan.statements)
             THEN cuts \cup {[at |-> scan.pos, flags |-> Flags(scan)]} ELSE cuts
  /\ spans' = IF b = "dollarClosed" THEN spans \cup {<<scan.pos, scan'.pos>>} ELSE spans
  /\ UNCHANGED <<writeVars, content, separator, statements, pc, parseVars>>

DollarQuoteClosed ==
  /\ pc = "scan"
  /\ scan.pos < Len(content)
  /\ Iterate("dollarClosed")

DollarQuoteUnclosed ==
  /\ pc = "scan"
  /\ scan.pos < Len(content)
  /\ Iterate("dollarUnclosed")

DollarChar ==
  /\ pc = "scan"
  /\ scan.pos < Len(content)
  /\ Iterate("dollarChar")

DashCommentStart ==
  /\ pc = "scan"
  /\ scan.pos < Len(content)
  /\ Iterate("dashStart")

BlockCommentStart ==
  /\ pc = "scan"
  /\ scan.pos < Len(content)
  /\ Iterate("blockStart")

DashCommentChar ==
  /\ pc = "scan"
  /\ scan.pos < Len(content)
  /\ Iterate("dashChar")

BlockCommentEnd ==
  /\ pc = "scan"
  /\ scan.pos < Len(content)
  /\ Iterate("blockEnd")

BlockCommentChar ==
  /\ pc = "scan"
  /\ scan.pos < Len(content)
  /\ Iterate("blockChar")

StatementEnd ==
  /\ pc = "scan"
  /\ scan.pos < Len(content)
  /\ Iterate("separator")

OtherChar ==
  /\ pc = "scan"
  /\ scan.pos < Len(content)
  /\ Iterate("char")

SplitReturn ==
  /\ pc = "scan"
  /\ scan.pos >= Len(content)
  /\ statements' = ScanFinish(scan)
  /\ pc' = "done"
  /\ UNCHANGED <<writeVars, content, separator, splitVars, parseVars>>

NextSplit ==
  \/ DollarQuoteClosed
  \/ DollarQuoteUnclosed
  \/ DollarChar
  \/ DashCommentStart
  \/ BlockCommentStart
  \/ DashCommentChar
  \/ BlockCommentEnd
  \/ BlockCommentChar
  \/ StatementEnd
  \/ OtherChar
  \/ SplitReturn

SpecSplit == InitSplit /\ [][NextSplit]_vars

\* ------------------------------------------------------------------------
\* Inputs of parse: dumps built from statements and fragments
\* ------------------------------------------------------------------------
\* a table without schema, one line
TableT ==
  <<"C","R","E","A","T","E"," ","T","A","B","L","E"," ","t"," ","(","a"," ",
    "i","n","t",")",";">>

\* a table with schema, indented columns
TableST ==
  <<"C","R","E","A","T","E"," ","T","A","B","L","E"," ","s",".","t"," ","(",
    "\n"," "," ","a"," ","i","n","t"," ","N","O","T"," ","N","U","L","L",",",
    "\n"," "," ","b"," ","i","n","t","\n",")",";">>

\* a statement no matcher knows
SetStmt ==
  <<"S","E","T"," ","s","t","a","t","e","m","e","n","t","_","t","i","m","e",
    "o","u","t"," ","="," ","0",";">>

\* a schema
SchemaS ==
  <<"C","R","E","A","T","E"," ","S","C","H","E","M","A"," ","s",";">>

\* an extension
ExtensionE ==
  <<"C","R","E","A","T","E"," ","E","X","T","E","N","S","I","O","N"," ","e",
    ";">>

\* a type, lower-case keywords
TypeY ==
  <<"c","r","e","a","t","e"," ","t","y","p","e"," ","s",".","y",";">>

\* a domain
DomainD ==
  <<"C","R","E","A","T","E"," ","D","O","M","A","I","N"," ","d"," ","i","n",
    "t",";">>

\* a function whose body creates a table and an index
FunctionF ==
  <<"C","R","E","A","T","E"," ","F","U","N","C","T","I","O","N"," ","s",".",
    "f","(",")"," ","A","S"," ","$","$","C","R","E","A","T","E"," ","T","A",
    "B","L","E"," ","x","(",")",";","C","R","E","A","T","E"," ","I","N","D",
    "E","X"," ","O","N"," ","x","(","a",")","$","$",";">>

\* a procedure
ProcedureP ==
  <<"C","R","E","A","T","E"," ","P","R","O","C","E","D","U","R","E"," ","p",
    "(",")"," ","A","S"," ","$","$",";","$","$",";">>

\* CREATE OR REPLACE FUNCTION
OrReplaceF ==
  <<"C","R","E","A","T","E"," ","O","R"," ","R","E","P","L","A","C","E"," ",
    "F","U","N","C","T","I","O","N"," ","s",".","f","(",")"," ","A","S"," ",
    "$","$",";","$","$",";">>

\* CREATE OR REPLACE PROCEDURE
OrReplaceP ==
  <<"C","R","E","A","T","E"," ","O","R"," ","R","E","P","L","A","C","E"," ",
    "P","R","O","C","E","D","U","R","E"," ","p","(",")"," ","A","S"," ","$",
    "$",";","$","$",";">>

\* a view
ViewV ==
  <<"C","R","E","A","T","E"," ","V","I","E","W"," ","v"," ","A","S"," ","S",
    "E","L","E","C","T"," ","1",";">>

\* an index on public.t
IndexT ==
  <<"C","R","E","A","T","E"," ","I","N","D","E","X"," ","i"," ","O","N"," ",
    "t"," ","(","a",")",";">>

\* a constraint on public.t
ConstraintT ==
  <<"A","L","T","E","R"," ","T","A","B","L","E"," ","O","N","L","Y"," ","t",
    " ","A","D","D"," ","C","O","N","S","T","R","A","I","N","T"," ","c"," ",
    "C","H","E","C","K"," ","(","a",")",";">>

\* an identity sequence on column a of public.t
SequenceT ==
  <<"A","L","T","E","R"," ","T","A","B","L","E"," ","t"," ","A","L","T","E",
    "R"," ","C","O","L","U","M","N"," ","a"," ","A","D","D"," ","G","E","N",
    "E","R","A","T","E","D"," ","A","L","W","A","Y","S"," ","A","S"," ","I",
    "D","E","N","T","I","T","Y"," ","(","S","E","Q","U","E","N","C","E"," ",
    "N","A","M","E"," ","q",")",";">>

\* an identity sequence on a column with a quoted name
SequenceQ ==
  <<"A","L","T","E","R"," ","T","A","B","L","E"," ","t"," ","A","L","T","E",
    "R"," ","\"",")",")","\""," ","A","D","D"," ","G","E","N","E","R","A","T",
    "E","D"," ","B","Y"," ","D","E","F","A","U","L","T"," ","A","S"," ","I",
    "D","E","N","T","I","T","Y"," ","(","S","E","Q","U","E","N","C","E"," ",
    "N","A","M","E"," ","q",")",";">>

\* a comment line that names a table
CommentC ==
  <<"-","-"," ","C","R","E","A","T","E"," ","T","A","B","L","E"," ","x","\n">>

\* a line break
Blank ==
  <<"\n">>

\* a quote character
Quote ==
  <<"'">>

DumpPieces ==
  { TableT, TableST, SetStmt, SchemaS, ExtensionE,
    TypeY, DomainD, FunctionF, ProcedureP, OrReplaceF,
    OrReplaceP, ViewV, IndexT, ConstraintT, SequenceT,
    SequenceQ, CommentC, Blank, Quote }

DumpInputs == Texts(DumpPieces, MaxPieces)

\* a table whose first column has a quoted name with two stars
TableStar ==
  <<"C","R","E","A","T","E"," ","T","A","B","L","E"," ","t"," ","(","\"","a",
    "*","b","*","\""," ","i","n","t",","," ","a"," ","i","n","t",")",";">>

\* a type named as the table
TypeT ==
  <<"C","R","E","A","T","E"," ","T","Y","P","E"," ","t",";">>

\* a view named as the table
ViewT ==
  <<"C","R","E","A","T","E"," ","V","I","E","W"," ","t"," ","A","S"," ","S",
    "E","L","E","C","T"," ","1",";">>

\* an identity sequence s.q on column a of s.t
SequenceSA ==
  <<"A","L","T","E","R"," ","T","A","B","L","E"," ","s",".","t"," ","A","L",
    "T","E","R"," ","a"," ","A","D","D"," ","G","E","N","E","R","A","T","E",
    "D"," ","A","L","W","A","Y","S"," ","A","S"," ","I","D","E","N","T","I",
    "T","Y"," ","(","S","E","Q","U","E","N","C","E"," ","N","A","M","E"," ",
    "s",".","q",")",";">>

\* an identity sequence s.r on column b of s.t, on several lines
SequenceSB ==
  <<"A","L","T","E","R"," ","T","A","B","L","E"," ","s",".","t"," ","A","L",
    "T","E","R"," ","C","O","L","U","M","N"," ","b"," ","A","D","D"," ","G",
    "E","N","E","R","A","T","E","D"," ","B","Y"," ","D","E","F","A","U","L",
    "T"," ","A","S"," ","I","D","E","N","T","I","T","Y"," ","(","\n"," "," ",
    "S","E","Q","U","E","N","C","E"," ","N","A","M","E"," ","s",".","r","\n",
    ")",";">>

\* an identity sequence public.q on column a of s.t
SequenceX ==
  <<"A","L","T","E","R"," ","T","A","B","L","E"," ","s",".","t"," ","A","L",
    "T","E","R"," ","a"," ","A","D","D"," ","G","E","N","E","R","A","T","E",
    "D"," ","A","L","W","A","Y","S"," ","A","S"," ","I","D","E","N","T","I",
    "T","Y"," ","(","S","E","Q","U","E","N","C","E"," ","N","A","M","E"," ",
    "q",")",";">>

\* an identity sequence on the column with the stars
SequenceStar ==
  <<"A","L","T","E","R"," ","T","A","B","L","E"," ","t"," ","A","L","T","E",
    "R"," ","\"","a","*","b","*","\""," ","A","D","D"," ","G","E","N","E","R",
    "A","T","E","D"," ","A","L","W","A","Y","S"," ","A","S"," ","I","D","E",
    "N","T","I","T","Y"," ","(","S","E","Q","U","E","N","C","E"," ","N","A",
    "M","E"," ","q",")",";">>

\* a constraint on s.t
ConstraintS ==
  <<"A","L","T","E","R"," ","T","A","B","L","E"," ","O","N","L","Y"," ","s",
    ".","t"," ","A","D","D"," ","C","O","N","S","T","R","A","I","N","T"," ",
    "k"," ","P","R","I","M","A","R","Y"," ","K","E","Y"," ","(","a",")",";">>

\* a constraint on public.t whose definition spans two lines
ConstraintM ==
  <<"A","L","T","E","R"," ","T","A","B","L","E"," ","t"," ","A","D","D"," ",
    "C","O","N","S","T","R","A","I","N","T"," ","m"," ","C","H","E","C","K",
    " ","(","a","\n","="," ","0",")",";">>

MaxAttachables == 2

\* the attachable statements, in the order in which a dump has them
AttachPieces ==
  << SequenceX, ConstraintM, SequenceSB, IndexT, SequenceT, ConstraintS,
     SequenceSA, ConstraintT, SequenceStar, SequenceQ >>

\* what stands before and after the attachable statements
AttachFrames ==
  { <<TableT, <<>>>>,
    <<TableST, <<>>>>,
    <<TableStar, <<>>>>,
    <<TypeT, ViewT \o Blank>>,
    <<SchemaS \o SetStmt, TableT \o TableST>> }

\* the pieces numbered from k on that are in picked, in their order
RECURSIVE Picked(_, _, _)
Picked(pieces, picked, k) ==
  IF k > Len(pieces) THEN <<>>
  ELSE (IF k \in picked THEN pieces[k] ELSE <<>>) \o Picked(pieces, picked, k + 1)

\* a table public.users and its primary key
UsersDump ==
  <<"C","R","E","A","T","E"," ","T","A","B","L","E"," ","p","u","b","l","i",
    "c",".","u","s","e","r","s"," ","(","i","d"," ","i","n","t",")",";","A",
    "L","T","E","R"," ","T","A","B","L","E"," ","O","N","L","Y"," ","p","u",
    "b","l","i","c",".","u","s","e","r","s"," ","A","D","D"," ","C","O","N",
    "S","T","R","A","I","N","T"," ","u","s","e","r","s","_","p","k","e","y",
    " ","P","R","I","M","A","R","Y"," ","K","E","Y"," ","(","i","d",")",";">>

\* a frame around at most MaxAttachables of the attachable statements, and
\* the dump of the users table
AttachInputs ==
  { f[1] \o Picked(AttachPieces, picked, 1) \o f[2] :
      f \in AttachFrames,
      picked \in {ps \in SUBSET (1..Len(AttachPieces)) : Cardinality(ps) <= MaxAttachables} }
  \cup {UsersDump}

\* ------------------------------------------------------------------------
\* Parser.parse as a process: the split, one action per route of the for
\* loop, then attachment and return
\* ------------------------------------------------------------------------
Init ==
  /\ content \in DumpInputs
  /\ separator = ";"
  /\ scan = ScanInit
  /\ statements = <<>>
  /\ pc = "parse"
  /\ lastBranch = "none"
  /\ flagsBefore = Normal
  /\ cuts = {}
  /\ spans = {}
  /\ idx = 0
  /\ trimmed = <<>>
  /\ parsed = NoParse
  /\ objects = <<>>
  /\ attachableStatements = <<>>
  /\ residual = <<>>
  /\ fragments = <<>>
  /\ result = NoResult
  /\ TABLE_COLUMN_REGEX_CACHE = EmptyCache
  /\ NoWrites

\* const statements = Parser.splitIntoStatements(content)
ParseSplit ==
  /\ pc = "parse"
  /\ statements' = splitIntoStatements(content, ";")
  /\ idx' = 1
  /\ pc' = "classify"
  /\ UNCHANGED <<writeVars, content, separator, splitVars, trimmed, parsed, objects,
                 attachableStatements, residual, fragments, result,
                 TABLE_COLUMN_REGEX_CACHE>>

AttachableTypes == {"sequence", "constraint", "index"}

\* a prefix that is kept for terminal objects only
WithPrefixOfObjects(list, p) ==
  IF p.residual # Undef /\ p.type \notin AttachableTypes
  THEN Append(list, p.residual) ELSE list

\* if (parsed.residual) residual.push(parsed.residual)
WithPrefix(list, p) == IF p.residual # Undef THEN Append(list, p.residual) ELSE list

\* what the statement contributes to fragments when a matcher matched
MatchedFragments(p) ==
  (IF p.residual # Undef THEN <<[kind |-> "residual", text |-> p.residual]>> ELSE <<>>)
  \o <<[kind |-> p.type, text |-> p.definition]>>

\* the terminal object pushed for a parsed statement
NewObject(p) ==
  [type |-> p.type, schema |-> p.schema, name |-> p.name,
   qualifiedName |-> IF p.type = "schema" THEN Undef ELSE p.qualifiedName,
   definition |-> p.definition,
   sequences |-> Undef, constraints |-> Undef, indexes |-> Undef]

\* const trimmed = statement.trim(); if (!trimmed) continue
SkipBlank ==
  /\ pc = "classify"
  /\ idx <= Len(statements)
  /\ Trim(statements[idx]) = <<>>
  /\ trimmed' = <<>>
  /\ idx' = idx + 1
  /\ UNCHANGED <<writeVars, content, separator, statements, pc, splitVars, parsed, objects,
                 attachableStatements, residual, fragments, result,
                 TABLE_COLUMN_REGEX_CACHE>>

\* const parsed = Parser.parseStatement(trimmed)
Classify ==
  /\ pc = "classify"
  /\ idx <= Len(statements)
  /\ Trim(statements[idx]) # <<>>
  /\ trimmed' = Trim(statements[idx])
  /\ parsed' = parseStatement(Trim(statements[idx]))
  /\ pc' = "route"
  /\ UNCHANGED <<writeVars, content, separator, statements, splitVars, idx, objects,
                 attachableStatements, residual, fragments, result,
                 TABLE_COLUMN_REGEX_CACHE>>

\* case 'sequence', 'constraint', 'index'
RouteAttachable ==
  /\ pc = "route"
  /\ parsed.type \in AttachableTypes
  /\ attachableStatements' = Append(attachableStatements, parsed)
  /\ residual' = WithPrefix(residual, parsed)
  /\ fragments' = fragments \o MatchedFragments(parsed)
  /\ idx' = idx + 1
  /\ pc' = "classify"
  /\ UNCHANGED <<writeVars, content, separator, statements, splitVars, trimmed, parsed,
                 objects, result, TABLE_COLUMN_REGEX_CACHE>>

\* case 'schema'
RouteSchema ==
  /\ pc = "route"
  /\ parsed.type = "schema"
  /\ objects' = Append(objects, NewObject(parsed))
  /\ residual' = WithPrefix(residual, parsed)
  /\ fragments' = fragments \o MatchedFragments(parsed)
  /\ idx' = idx + 1
  /\ pc' = "classify"
  /\ UNCHANGED <<writeVars, content, separator, statements, splitVars, trimmed, parsed,
                 attachableStatements, result, TABLE_COLUMN_REGEX_CACHE>>

\* a default route that puts the new object first
RouteObjectFirst ==
  /\ pc = "route"
  /\ parsed.type \notin AttachableTypes \cup {"schema", "none"}
  /\ objects' = <<NewObject(parsed)>> \o objects
  /\ residual' = WithPrefix(residual, parsed)
  /\ fragments' = fragments \o MatchedFragments(parsed)
  /\ idx' = idx + 1
  /\ pc' = "classify"
  /\ UNCHANGED <<writeVars, content, separator, statements, splitVars, trimmed, parsed,
                 attachableStatements, result, TABLE_COLUMN_REGEX_CACHE>>

\* default
RouteObject ==
  /\ pc = "route"
  /\ parsed.type \notin AttachableTypes \cup {"schema", "none"}
  /\ objects' = Append(objects, NewObject(parsed))
  /\ residual' = WithPrefix(residual, parsed)
  /\ fragments' = fragments \o MatchedFragments(parsed)
  /\ idx' = idx + 1
  /\ pc' = "classify"
  /\ UNCHANGED <<writeVars, content, separator, statements, splitVars, trimmed, parsed,
                 attachableStatements, result, TABLE_COLUMN_REGEX_CACHE>>

\* a residual route that pushes the trimmed statement
RouteResidualTrimmed ==
  /\ pc = "route"
  /\ parsed.type = "none"
  /\ residual' = Append(residual, trimmed)
  /\ fragments' = Append(fragments, [kind |-> "residual", text |-> trimmed])
  /\ idx' = idx + 1
  /\ pc' = "classify"
  /\ UNCHANGED <<writeVars, content, separator, statements, splitVars, trimmed, parsed,
                 objects, attachableStatements, result, TABLE_COLUMN_REGEX_CACHE>>

\* else residual.push(statement)
RouteResidual ==
  /\ pc = "route"
  /\ parsed.type = "none"
  /\ residual' = Append(residual, statements[idx])
  /\ fragments' = Append(fragments, [kind |-> "residual", text |-> statements[idx]])
  /\ idx' = idx + 1
  /\ pc' = "classify"
  /\ UNCHANGED <<writeVars, content, separator, statements, splitVars, trimmed, parsed,
                 objects, attachableStatements, result, TABLE_COLUMN_REGEX_CACHE>>

\* the loop is over: Parser.attachObjectsToTables(objects, attachableStatements)
\* and the return statement
Returns(attached) ==
  /\ ~attached.threw
  /\ objects' = attached.objects
  /\ TABLE_COLUMN_REGEX_CACHE' = attached.cache
  /\ result' = [returned |-> TRUE, objects |-> attached.objects,
                residual |-> Trim(Join(residual, <<"\n">>))]

ParseReturn ==
  /\ pc = "classify"
  /\ idx > Len(statements)
  /\ Returns(attachObjectsToTables(objects, attachableStatements,
                                   TABLE_COLUMN_REGEX_CACHE))
  /\ pc' = "done"
  /\ UNCHANGED <<writeVars, content, separator, statements, splitVars, idx, trimmed, parsed,
                 attachableStatements, residual, fragments>>

\* the loop is over and attachObjectsToTables raises: the exception leaves
\* parse, nothing is returned
Throws(attached) ==
  /\ attached.threw
  /\ TABLE_COLUMN_REGEX_CACHE' = attached.cache

ParseThrows ==
  /\ pc = "classify"
  /\ idx > Len(statements)
  /\ Throws(attachObjectsToTables(objects, attachableStatements,
                                  TABLE_COLUMN_REGEX_CACHE))
  /\ pc' = "threw"
  /\ UNCHANGED <<writeVars, content, separator, statements, splitVars, idx, trimmed, parsed,
                 objects, attachableStatements, residual, fragments, result>>

Next ==
  \/ ParseSplit
  \/ SkipBlank
  \/ Classify
  \/ RouteAttachable
  \/ RouteSchema
  \/ RouteObject
  \/ RouteResidual
  \/ ParseReturn
  \/ ParseThrows

Spec == Init /\ [][Next]_vars

\* parse on dumps of tables, views and other objects with attachable
\* statements
InitAttach ==
  /\ content \in AttachInputs
  /\ separator = ";"
  /\ scan = ScanInit
  /\ statements = <<>>
  /\ pc = "parse"
  /\ lastBranch = "none"
  /\ flagsBefore = Normal
  /\ cuts = {}
  /\ spans = {}
  /\ idx = 0
  /\ trimmed = <<>>
  /\ parsed = NoParse
  /\ objects = <<>>
  /\ attachableStatements = <<>>
  /\ residual = <<>>
  /\ fragments = <<>>
  /\ result = NoResult
  /\ TABLE_COLUMN_REGEX_CACHE = EmptyCache
  /\ NoWrites

SpecAttach == InitAttach /\ [][Next]_vars

\* ------------------------------------------------------------------------
\* Parser.parse called again and again in one process
\* ------------------------------------------------------------------------
\* the switch of the for loop of parse on one parsed statement; loop holds
\* objects, attachableStatements and residual
RouteParsed(loop, statement, p) ==
  IF p.type = "none"
  THEN [loop EXCEPT !.residual = Append(@, statement)]
  ELSE IF p.type \in AttachableTypes
  THEN [loop EXCEPT !.attachableStatements = Append(@, p),
                    !.residual = WithPrefix(@, p)]
  ELSE [loop EXCEPT !.objects = Append(@, NewObject(p)),
                    !.residual = WithPrefix(@, p)]

\* one iteration of the for loop of parse
RouteInto(loop, statement) ==
  IF Trim(statement) = <<>> THEN loop
  ELSE RouteParsed(loop, statement, parseStatement(Trim(statement)))

\* the for loop of parse over the first n statements
RECURSIVE Routed(_, _)
Routed(list, n) ==
  IF n = 0
  THEN [objects |-> <<>>, attachableStatements |-> <<>>, residual |-> <<>>]
  ELSE RouteInto(Routed(list, n - 1), list[n])

\* what parse returns after attachment; nothing when attachment raised
Returned(loop, attached) ==
  IF attached.threw THEN NoResult
  ELSE [returned |-> TRUE, objects |-> attached.objects,
        residual |-> Trim(Join(loop.residual, <<"\n">>))]

Attached(loop, cache) ==
  Returned(loop, attachObjectsToTables(loop.objects, loop.attachableStatements, cache))

AllRouted(list) == Routed(list, Len(list))

\* Parser.parse(content) in a process whose column cache is cache
parse(text, cache) == Attached(AllRouted(splitIntoStatements(text, ";")), cache)

\* the dumps handed to the calls: tables with sequences on the same and on
\* different columns, a column whose pattern does not compile, other
\* attachables, other objects
CallFrames ==
  { <<TableT, <<>>>>, <<TableStar, <<>>>>, <<TypeT, ViewT \o Blank>>,
    <<SchemaS \o SetStmt, TableT \o TableST>> }

CallPieces ==
  { <<>>, SequenceT, SequenceStar, SequenceQ, SequenceSA \o SequenceSB,
    SequenceT \o SequenceQ, ConstraintT, IndexT }

CallInputs == { f[1] \o p \o f[2] : f \in CallFrames, p \in CallPieces }

\* the first call of a fresh process
InitCalls ==
  /\ content \in CallInputs
  /\ separator = ";"
  /\ scan = ScanInit
  /\ statements = <<>>
  /\ pc = "parse"
  /\ lastBranch = "none"
  /\ flagsBefore = Normal
  /\ cuts = {}
  /\ spans = {}
  /\ idx = 0
  /\ trimmed = <<>>
  /\ parsed = NoParse
  /\ objects = <<>>
  /\ attachableStatements = <<>>
  /\ residual = <<>>
  /\ fragments = <<>>
  /\ result = NoResult
  /\ TABLE_COLUMN_REGEX_CACHE = EmptyCache
  /\ NoWrites

\* the call is over, by return or by exception, and parse is called again in
\* the same process: the locals are new, the static cache is what the calls
\* before left
ParseAgain ==
  /\ pc \in {"done", "threw"}
  /\ content' \in CallInputs
  /\ statements' = <<>>
  /\ pc' = "parse"
  /\ idx' = 0
  /\ trimmed' = <<>>
  /\ parsed' = NoParse
  /\ objects' = <<>>
  /\ attachableStatements' = <<>>
  /\ residual' = <<>>
  /\ fragments' = <<>>
  /\ result' = NoResult
  /\ UNCHANGED <<writeVars, separator, splitVars, TABLE_COLUMN_REGEX_CACHE>>

NextCalls ==
  \/ ParseSplit
  \/ SkipBlank
  \/ Classify
  \/ RouteAttachable
  \/ RouteSchema
  \/ RouteObject
  \/ RouteResidual
  \/ ParseReturn
  \/ ParseThrows
  \/ ParseAgain

SpecCalls == InitCalls /\ [][NextCalls]_vars

\* ------------------------------------------------------------------------
\* FileSystem.writeObjects as a process: the writes of the objects are
\* started together and their steps complete in any order
\* ------------------------------------------------------------------------
\* two overloads of one function, and what else the written dumps are made of
FunctionInt ==
  <<"C","R","E","A","T","E"," ","F","U","N","C","T","I","O","N"," ","f","(",
    "i","n","t",")"," ","A","S"," ","'","a","'",";">>

FunctionText ==
  <<"C","R","E","A","T","E"," ","F","U","N","C","T","I","O","N"," ","f","(",
    "t","e","x","t",")"," ","A","S"," ","'","b","'",";">>

WriteInputs ==
  { FunctionInt \o FunctionText, FunctionText \o FunctionInt,
    FunctionInt \o ProcedureP, TableT \o TypeT, TableT \o ViewT \o IndexT,
    SchemaS \o SetStmt \o TableST, TableT \o TableT, SetStmt,
    TableT \o TableST \o ViewT }

\* `${object.type}s` and `${object.qualifiedName ?? object.name}.sql`, below
\* the output directory
TypeText(type) ==
  CASE type = "schema"    -> <<"s","c","h","e","m","a">>
    [] type = "extension" -> <<"e","x","t","e","n","s","i","o","n">>
    [] type = "type"      -> <<"t","y","p","e">>
    [] type = "domain"    -> <<"d","o","m","a","i","n">>
    [] type = "function"  -> <<"f","u","n","c","t","i","o","n">>
    [] type = "procedure" -> <<"p","r","o","c","e","d","u","r","e">>
    [] type = "table"     -> <<"t","a","b","l","e">>
    [] type = "view"      -> <<"v","i","e","w">>

getObjectPath(object) ==
  [directory |-> TypeText(object.type) \o <<"s">>,
   file      |-> TypeText(object.type) \o <<"s", "/">>
                   \o OrElse(object.qualifiedName, object.name)
                   \o <<".", "s", "q", "l">>]

\* join(this.outputDir, 'residual.sql')
ResidualPath == <<"r","e","s","i","d","u","a","l",".","s","q","l">>

\* the file after data was written at its start through a descriptor opened
\* for writing: what another writer had written beyond stays
Overwritten(old, data) == data \o SubSeq(old, Len(data) + 1, Len(old))

\* the entry pushed to summary.errors for an object
WriteObjectError(object, error) ==
  [object |-> TypeText(object.type) \o <<":", " ">>
                \o OrElse(object.qualifiedName, object.name),
   error  |-> error]

\* writeObjects is called on a parse result
InitWrite ==
  /\ content \in WriteInputs
  /\ result = parse(content, EmptyCache)
  /\ pc = "writeObjects"
  /\ separator = ";"
  /\ scan = ScanInit
  /\ statements = <<>>
  /\ lastBranch = "none"
  /\ flagsBefore = Normal
  /\ cuts = {}
  /\ spans = {}
  /\ idx = 0
  /\ trimmed = <<>>
  /\ parsed = NoParse
  /\ objects = <<>>
  /\ attachableStatements = <<>>
  /\ residual = <<>>
  /\ fragments = <<>>
  /\ TABLE_COLUMN_REGEX_CACHE = EmptyCache
  /\ NoWrites

writeFrame == <<content, separator, statements, splitVars, parseVars>>

\* the summary is made and map starts the write of every object: each async
\* callback runs up to the mkdir of ensureDirectory; then Promise.all waits
StartWrites ==
  /\ pc = "writeObjects"
  /\ summary' = [NoSummary EXCEPT !.totalObjects = Len(result.objects)]
  /\ writers' = [i \in 1..Len(result.objects) |-> "mkdir"]
  /\ pc' = "await"
  /\ UNCHANGED <<writeFrame, files, directories>>

\* mkdir of writer i is done: writeFile is called and opens the file
MkdirDone(i) ==
  /\ writers[i] = "mkdir"
  /\ directories' = directories \cup {getObjectPath(result.objects[i]).directory}
  /\ writers' = [writers EXCEPT ![i] = "open"]
  /\ UNCHANGED <<writeFrame, pc, files, summary>>

\* mkdir of writer i fails: MKDIR_ERROR is caught and pushed to the errors
MkdirFails(i) ==
  /\ writers[i] = "mkdir"
  /\ summary' = [summary EXCEPT !.errors =
                   Append(@, WriteObjectError(result.objects[i], "MKDIR_ERROR"))]
  /\ writers' = [writers EXCEPT ![i] = "settled"]
  /\ UNCHANGED <<writeFrame, pc, files, directories>>

\* writeFile of writer i opens its file for writing: made or truncated
FileOpened(i) ==
  /\ writers[i] = "open"
  /\ files' = (getObjectPath(result.objects[i]).file :> <<>>) @@ files
  /\ writers' = [writers EXCEPT ![i] = "write"]
  /\ UNCHANGED <<writeFrame, pc, directories, summary>>

\* writeFile of writer i fails, at the open or at the write: WRITE_ERROR is
\* caught and pushed to the errors
WriteFails(i) ==
  /\ writers[i] \in {"open", "write"}
  /\ summary' = [summary EXCEPT !.errors =
                   Append(@, WriteObjectError(result.objects[i], "WRITE_ERROR"))]
  /\ writers' = [writers EXCEPT ![i] = "settled"]
  /\ UNCHANGED <<writeFrame, pc, files, directories>>

\* writeFile of writer i writes the definition from the start of the file
\* and resolves: summary.writtenObjects++
FileWritten(i) ==
  /\ writers[i] = "write"
  /\ files' = [files EXCEPT ![getObjectPath(result.objects[i]).file] =
                 Overwritten(@, result.objects[i].definition)]
  /\ summary' = [summary EXCEPT !.writtenObjects = @ + 1]
  /\ writers' = [writers EXCEPT ![i] = "settled"]
  /\ UNCHANGED <<writeFrame, pc, directories>>

AllSettled == \A i \in 1..Len(writers) : writers[i] = "settled"

\* Promise.all is resolved and the residual is written
ResidualWritten ==
  /\ pc = "await"
  /\ AllSettled
  /\ result.residual # <<>>
  /\ files' = (ResidualPath :> result.residual) @@ files
  /\ summary' = [summary EXCEPT !.residualWritten = TRUE]
  /\ pc' = "returned"
  /\ UNCHANGED <<writeFrame, directories, writers>>

\* Promise.all is resolved and the write of the residual fails
ResidualFails ==
  /\ pc = "await"
  /\ AllSettled
  /\ result.residual # <<>>
  /\ summary' = [summary EXCEPT !.errors =
                   Append(@, [object |-> ResidualPath, error |-> "writeFile"])]
  /\ pc' = "returned"
  /\ UNCHANGED <<writeFrame, files, directories, writers>>

\* Promise.all is resolved and there is no residual
NoResidual ==
  /\ pc = "await"
  /\ AllSettled
  /\ result.residual = <<>>
  /\ pc' = "returned"
  /\ UNCHANGED <<writeFrame, writeVars>>

MkdirDoneAny == \E i \in 1..Len(writers) : MkdirDone(i)

MkdirFailsAny == \E i \in 1..Len(writers) : MkdirFails(i)

FileOpenedAny == \E i \in 1..Len(writers) : FileOpened(i)

WriteFailsAny == \E i \in 1..Len(writers) : WriteFails(i)

FileWrittenAny == \E i \in 1..Len(writers) : FileWritten(i)

NextWrite ==
  \/ StartWrites
  \/ MkdirDoneAny
  \/ MkdirFailsAny
  \/ FileOpenedAny
  \/ WriteFailsAny
  \/ FileWrittenAny
  \/ ResidualWritten
  \/ ResidualFails
  \/ NoResidual

SpecWrite == InitWrite /\ [][NextWrite]_vars

\* ------------------------------------------------------------------------
\* Properties of the tokenizer
\* ------------------------------------------------------------------------
\* the offset in content at which statement k of ss starts
RECURSIVE Offset(_, _)
Offset(ss, k) == IF k <= 1 THEN 0 ELSE Offset(ss, k - 1) + Len(ss[k - 1])

IdentStartChars == Letters \cup {"_"}

IdentChars == Letters \cup Digits \cup {"_"}

\* content[p .. q) is $$ or $tag$
IsTagAt(text, p, q) ==
  /\ q - p >= 2 /\ q <= Len(text)
  /\ text[p + 1] = "$" /\ text[q] = "$"
  /\ \A j \in (p + 2)..(q - 1) : text[j] \in IdentChars
  /\ q - p > 2 => text[p + 2] \in IdentStartChars

\* C1: a separator ends a statement only in Normal state: every boundary the
\* tokenizer produced lies at a separator character, was produced with all
\* four comment and quote flags off and outside every consumed dollar-quoted
\* span, and every boundary between two returned statements is such a cut.
C1_SeparatorOnlyInNormal ==
  /\ \A c \in cuts :
       /\ c.flags = Normal
       /\ CharAt(content, c.at) = separator
       /\ \A sp \in spans : ~(sp[1] <= c.at /\ c.at < sp[2])
  /\ pc = "done" =>
       \A k \in 2..Len(statements) :
         \E c \in cuts : c.at + 1 = Offset(statements, k)

\* a separator inside a comment, a quoted region or a span was passed over
\* while another separator did end a statement
C1_Witness ==
  /\ pc = "done"
  /\ cuts # {}
  /\ \E i \in 0..(Len(content) - 1) :
       /\ content[i + 1] = separator
       /\ \A c \in cuts : c.at # i

\* C2: an opening dollar-quote tag whose identical tag occurs again later is
\* consumed, in any lexical state, as one span that runs through the first
\* later occurrence of the tag; no boundary falls inside the span and the
\* span is found verbatim inside one returned statement.
C2_DollarSpanInOneStatement ==
  /\ \A sp \in spans :
       \E n \in 2..(sp[2] - sp[1]) :
         /\ IsTagAt(content, sp[1], sp[1] + n)
         /\ sp[2] - n >= sp[1] + n
         /\ Slice(content, sp[2] - n, sp[2]) = Slice(content, sp[1], sp[1] + n)
         /\ \A j \in (sp[1] + n)..(sp[2] - n - 1) :
              ~StartsWithAt(content, Slice(content, sp[1], sp[1] + n), j)
  /\ \A sp \in spans : \A c \in cuts : ~(sp[1] <= c.at /\ c.at < sp[2])
  /\ (pc = "scan" /\ scan.pos < Len(content)) =>
       LET opens == \E n \in 2..(Len(content) - scan.pos) :
                      /\ IsTagAt(content, scan.pos, scan.pos + n)
                      /\ (n = 2 \/ CharAt(content, scan.pos + 1) # "$")
                      /\ IndexOf(content, Slice(content, scan.pos, scan.pos + n),
                                 scan.pos + n) # -1
       IN  opens <=> Branch(content, separator, scan) = "dollarClosed"
  /\ pc = "done" =>
       \A sp \in spans :
         \E k \in 1..Len(statements) :
           LET lo == Offset(statements, k)
           IN  /\ lo <= sp[1]
               /\ sp[2] <= lo + Len(statements[k])
               /\ Slice(statements[k], sp[1] - lo, sp[2] - lo)
                    = Slice(content, sp[1], sp[2])

\* `$$;$$` is one statement, and a span opened inside a quoted string
\* swallowed a separator
C2_Witness ==
  /\ pc = "done"
  /\ \E sp \in spans : \E i \in sp[1]..(sp[2] - 1) : content[i + 1] = separator
  /\ Len(statements) = 1

\* C3 as claimed: after an unclosed opening tag the scanner is in Normal state
C3_AsClaimed == lastBranch = "dollarUnclosed" => Flags(scan) = Normal

\* C3 amended: an unclosed opening tag raises nothing, appends exactly the
\* tag to the current statement and leaves the lexical state as it was
\* before the tag; a separator that follows the tag is a boundary exactly
\* when that state is Normal.
C3_UnclosedTagKeepsState ==
  [][ (lastBranch' = "dollarUnclosed" /\ scan' # scan) =>
        LET tag == Slice(content, scan.pos, scan'.pos)
        IN  /\ IsTagAt(content, scan.pos, scan'.pos)
            /\ IndexOf(content, tag, scan'.pos) = -1
            /\ scan'.currentStatement = scan.currentStatement \o tag
            /\ scan'.statements = scan.statements
            /\ Flags(scan') = Flags(scan)
            /\ pc' = "scan"
            /\ CharAt(content, scan'.pos) = separator =>
                 (Branch(content, separator, scan') = "separator"
                    <=> Flags(scan) = Normal) ]_vars

\* an unclosed tag was met inside a quoted region or a comment and a
\* separator follows it
C3_Witness ==
  /\ lastBranch = "dollarUnclosed"
  /\ flagsBefore # Normal
  /\ CharAt(content, scan.pos) = separator

\* C4: tokenization is lossless: the statements pushed so far and the
\* current statement spell the consumed prefix; the returned statements
\* concatenate to the input, none is empty, all but the last end with the
\* separator, and a non-empty remainder after the last boundary is the last
\* statement.
C4_Lossless ==
  /\ scan.pos <= Len(content)
  /\ Concat(scan.statements) \o scan.currentStatement = Slice(content, 0, scan.pos)
  /\ pc = "done" =>
       /\ Concat(statements) = content
       /\ \A k \in 1..Len(statements) : statements[k] # <<>>
       /\ \A k \in 1..(Len(statements) - 1) :
            statements[k][Len(statements[k])] = separator
       /\ \A i \in 0..(Len(content) - 1) :
            (/\ \A c \in cuts : c.at < i
             /\ i = 0 \/ \E c \in cuts : c.at = i - 1)
            => statements[Len(statements)] = SliceFrom(content, i)

\* a text with a boundary and a remainder after it that lacks the separator
C4_Witness ==
  /\ pc = "done"
  /\ Len(statements) >= 2
  /\ statements[Len(statements)][Len(statements[Len(statements)])] # separator

\* ------------------------------------------------------------------------
\* Properties of parse
\* ------------------------------------------------------------------------
\* the for loop of parse is over and attachment has not run yet
LoopOver == pc = "classify" /\ idx > Len(statements)

\* text without its whitespace characters
Squeeze(text) == SelectSeq(text, LAMBDA c : c \notin WhiteSpace)

\* the texts of the fragments whose kind is in kinds, in source order
TextsOf(frs, kinds) ==
  LET kept == SelectSeq(frs, LAMBDA f : f.kind \in kinds)
  IN  [k \in 1..Len(kept) |-> kept[k].text]

DefinitionsOf(list) == [k \in 1..Len(list) |-> list[k].definition]

TerminalTypes ==
  {"schema", "extension", "type", "domain", "function", "procedure", "table", "view"}

\* text from position p on is texts[j], texts[j + 1], ... in this order with
\* nothing but whitespace before, between and after them
RECURSIVE Covers(_, _, _, _)
Covers(text, texts, p, j) ==
  IF j > Len(texts)
  THEN \A i \in (p + 1)..Len(text) : text[i] \in WhiteSpace
  ELSE \E k \in 0..(Len(text) - p) :
         /\ \A i \in (p + 1)..(p + k) : text[i] \in WhiteSpace
         /\ StartsWithAt(text, texts[j], p + k)
         /\ Covers(text, texts, p + k + Len(texts[j]), j + 1)

\* C5 as claimed: the pre-attachment definitions of the objects and the
\* residual fragments, in source order, spell the dump up to whitespace.
C5_AsClaimed ==
  LoopOver =>
    Squeeze(Concat(TextsOf(fragments, TerminalTypes \cup {"residual"})))
      = Squeeze(content)

\* C5 amended: the pre-attachment definitions of the objects, the residual
\* fragments and the definitions of the attachable statements (sequence,
\* constraint, index), in source order, spell the dump with whitespace alone
\* between them: no non-whitespace character is lost and none is duplicated.
C5_CompleteWithAttachables ==
  LoopOver =>
    /\ TextsOf(fragments, TerminalTypes) = DefinitionsOf(objects)
    /\ TextsOf(fragments, {"residual"}) = residual
    /\ TextsOf(fragments, AttachableTypes) = DefinitionsOf(attachableStatements)
    /\ Squeeze(Concat(TextsOf(fragments, TerminalTypes \cup AttachableTypes
                                           \cup {"residual"})))
         = Squeeze(content)
    /\ Covers(content, TextsOf(fragments, TerminalTypes \cup AttachableTypes
                                            \cup {"residual"}), 0, 1)

\* a dump with a terminal object and an attachable statement
C5_Witness ==
  /\ LoopOver
  /\ objects # <<>>
  /\ attachableStatements # <<>>

\* C6 as claimed: parse never raises; it runs to completion and returns a
\* ParseResult for every input text.
C6_ParseNeverRaises == pc # "threw"

\* the order of the matchers
MatcherOrder ==
  <<"schema", "extension", "type", "domain", "function", "procedure", "table",
    "sequence", "view", "constraint", "index">>

\* the pattern of the matcher of a type
RegexOf(type) == (CHOOSE e \in Range(PARSER_REGISTRY) : e.type = type).regex

\* the pattern of the matcher of a type matches the statement
Matches(type, statement) == Exec(RegexOf(type), statement).ok

\* the first type of order, from index k on, whose pattern matches, or none
RECURSIVE FirstMatch(_, _, _)
FirstMatch(order, k, statement) ==
  IF k > Len(order) THEN "none"
  ELSE IF Matches(order[k], statement) THEN order[k]
  ELSE FirstMatch(order, k + 1, statement)

\* the statement is matched by the table matcher and by an attachable matcher
TableAndAttachable(statement) ==
  /\ Matches("table", statement)
  /\ \E a \in AttachableTypes : Matches(a, statement)

\* C7 as claimed: the first matcher in the fixed order wins, and a statement
\* matched by the table matcher and by an attachable matcher is always
\* classified as a table.
C7_AsClaimed ==
  pc = "route" =>
    /\ parsed.type = FirstMatch(MatcherOrder, 1, trimmed)
    /\ TableAndAttachable(trimmed) => parsed.type = "table"

\* C7 amended: classification returns the result of the first matcher, in
\* the order schema, extension, type, domain, function, procedure, table,
\* sequence, view, constraint, index, whose pattern matches, or none when no
\* pattern matches; a statement matched by the table matcher and by an
\* attachable matcher is never classified as the attachable: it is a table
\* unless one of the six matchers before table matches it too.
C7_FirstMatchWins ==
  pc = "route" =>
    /\ parsed.type = FirstMatch(MatcherOrder, 1, trimmed)
    /\ parsed.type # "none" =>
         parsed = ParserParse(parsed.type, Exec(RegexOf(parsed.type), trimmed), trimmed)
    /\ TableAndAttachable(trimmed) =>
         /\ parsed.type \notin AttachableTypes
         /\ parsed.type = "table" <=> FirstMatch(MatcherOrder, 1, trimmed) = "table"

\* a statement that the table matcher and an attachable matcher both match
\* was classified as a table
C7_Witness ==
  /\ pc = "route"
  /\ parsed.type = "table"
  /\ \E a \in AttachableTypes : Matches(a, trimmed)

CreateOrReplaceFunction ==
  <<"C","R","E","A","T","E"," ","O","R"," ","R","E","P","L","A","C","E"," ",
    "F","U","N","C","T","I","O","N"," ">>

CreateOrReplaceProcedure ==
  <<"C","R","E","A","T","E"," ","O","R"," ","R","E","P","L","A","C","E"," ",
    "P","R","O","C","E","D","U","R","E"," ">>

\* the statement with the words OR REPLACE after CREATE left out
WithoutOrReplace(statement) == Slice(statement, 0, 7) \o SliceFrom(statement, 18)

\* p is an object of the type with the schema and name of q
SameObject(p, type, q) ==
  /\ p.type = type
  /\ q.type = type
  /\ p.schema = q.schema
  /\ p.name = q.name

\* C8 as claimed: CREATE OR REPLACE FUNCTION is classified as a function and
\* CREATE OR REPLACE PROCEDURE as a procedure, with the schema and name of
\* the form without OR REPLACE, and does not fall through to residual.
C8_OrReplaceClassified ==
  pc = "route" =>
    /\ StartsWithAt(trimmed, CreateOrReplaceFunction, 0) =>
         SameObject(parsed, "function", parseStatement(WithoutOrReplace(trimmed)))
    /\ StartsWithAt(trimmed, CreateOrReplaceProcedure, 0) =>
         SameObject(parsed, "procedure", parseStatement(WithoutOrReplace(trimmed)))

\* the definition spells schema.name, or the schema is public and the
\* definition spells the name alone
SchemaAsWritten(p) ==
  \/ IndexOf(p.definition, <<" ">> \o p.schema \o <<".">> \o p.name, 0) # -1
  \/ /\ p.schema = DEFAULT_SCHEMA
     /\ IndexOf(p.definition, <<" ">> \o p.name, 0) # -1

\* the object has the qualified name its kind asks for
QualifiedAsClaimed(o) ==
  IF o.type = "schema"
  THEN o.qualifiedName = Undef /\ o.name = o.schema
  ELSE o.qualifiedName = o.schema \o <<".">> \o o.name

C10_UnmatchedIsResidual ==
  [][ /\ (pc = "route" /\ FirstMatch(MatcherOrder, 1, trimmed) = "none") =>
           /\ objects' = objects
           /\ attachableStatements' = attachableStatements
           /\ residual' = Append(residual, statements[idx])
      /\ (pc' = "done" /\ pc # "done") =>
           /\ result'.residual
                = Trim(Join(TextsOf(fragments', {"residual"}), <<"\n">>))
           /\ content = SetStmt =>
                /\ result'.objects = <<>>
                /\ result'.residual = SetStmt ]_vars

\* two statements no matcher knows were returned as the residual
C10_Witness ==
  /\ pc = "done"
  /\ result.returned
  /\ result.objects = <<>>
  /\ Len(residual) = 2

\* the residual list after a statement whose match starts at index
PrefixPushed(list, statement, index) ==
  IF index > 0 THEN Append(list, Slice(statement, 0, index)) ELSE list

\* the matcher of parsed matched the statement at index: the definition runs
\* from there to the end, the text before it is the prefix, absent when empty
SplitAtMatch(p, statement, index) ==
  /\ p.definition = SliceFrom(statement, index)
  /\ p.residual = (IF index > 0 THEN Slice(statement, 0, index) ELSE Undef)
  /\ (IF index > 0 THEN p.residual ELSE <<>>) \o p.definition = statement

\* the step that routes a matched statement pushes its prefix, if any, and
\* nothing else to residual
PrefixSurfaced(index) ==
  /\ SplitAtMatch(parsed, trimmed, index)
  /\ residual' = PrefixPushed(residual, trimmed, index)

\* C11: for every matcher and every statement it matches the definition
\* begins at the start of the match and runs to the end of the trimmed
\* statement; the text before the match, when non-empty, is the residual
\* prefix, prefix followed by definition is the trimmed statement, and the
\* prefix is pushed to residual for attachable statements too.
C11_PrefixAndDefinition ==
  [][ (pc = "route" /\ parsed.type # "none") =>
        PrefixSurfaced(Exec(RegexOf(parsed.type), trimmed).index) ]_vars

\* an attachable statement with a prefix was routed and its prefix is in
\* residual
C11_Witness ==
  /\ pc = "classify"
  /\ attachableStatements # <<>>
  /\ attachableStatements[Len(attachableStatements)].residual # Undef
  /\ residual # <<>>
  /\ residual[Len(residual)] = attachableStatements[Len(attachableStatements)].residual

\* the kinds of the statements from the k-th on that classify as a terminal
\* kind, in the order of the statements
RECURSIVE TerminalKinds(_, _)
KindThen(kind, ss, k) ==
  (IF kind \in TerminalTypes THEN <<kind>> ELSE <<>>) \o TerminalKinds(ss, k + 1)

TerminalKinds(ss, k) ==
  IF k > Len(ss) THEN <<>>
  ELSE KindThen(FirstMatch(MatcherOrder, 1, Trim(ss[k])), ss, k)

\* the returned object is the object pushed in the loop, but for the fields
\* attachment sets
SameIdentity(o, pushed) ==
  /\ o.type = pushed.type
  /\ o.schema = pushed.schema
  /\ o.name = pushed.name
  /\ o.qualifiedName = pushed.qualifiedName

\* the returned objects are the pushed ones, one for each statement of a
\* terminal kind, in the order of the statements
OnePerTerminalStatement(returned, pushed, ss) ==
  /\ Len(returned) = Len(pushed)
  /\ \A k \in 1..Len(returned) :
       /\ SameIdentity(returned[k], pushed[k])
       /\ returned[k].type \in TerminalTypes
       /\ returned[k].type \notin AttachableTypes
  /\ [k \in 1..Len(returned) |-> returned[k].type] = TerminalKinds(ss, 1)

\* C12: the objects of a parse result are exactly one object for each
\* statement classified as schema, extension, type, domain, function,
\* procedure, table or view, in the order of those statements in the dump;
\* no object of kind sequence, constraint or index is among them.
C12_ObjectsInSourceOrder ==
  [][ (pc' = "done" /\ pc # "done") =>
        /\ OnePerTerminalStatement(result'.objects, objects, statements)
        /\ TextsOf(fragments, TerminalTypes) = DefinitionsOf(objects) ]_vars

\* a result with a view before a schema, which is not the order of the kinds
C12_Witness ==
  /\ pc = "done"
  /\ result.returned
  /\ Len(result.objects) = 2
  /\ result.objects[1].type = "view"
  /\ result.objects[2].type = "schema"

\* ------------------------------------------------------------------------
\* Properties of attachment
\* ------------------------------------------------------------------------
\* the qualified name of the table an attachable statement names after
\* ALTER TABLE [ONLY] or ON [ONLY], with the schema defaulted to public
OwnerOf(a) ==
  (IF a.type = "sequence" THEN a.tableSchema ELSE a.schema) \o <<".">> \o a.table

\* the tables and views among the objects
IsTableOrView(o) == o.type \in {"table", "view"}

\* no table or view of the objects has the owner of a as its qualified name
Orphan(a, objs) ==
  \A k \in 1..Len(objs) :
    IsTableOrView(objs[k]) => objs[k].qualifiedName # OwnerOf(a)

\* the members of a list field of an object that attachment may have set
ListOf(field) == IF field = Undef THEN {} ELSE Range(field)

\* the definition of a is in none of the lists and in no definition of objs
NowhereIn(a, objs) ==
  \A k \in 1..Len(objs) :
    /\ a.definition \notin ListOf(objs[k].sequences) \cup ListOf(objs[k].constraints)
                              \cup ListOf(objs[k].indexes)
    /\ IndexOf(objs[k].definition, a.definition, 0) = -1

\* C13 as claimed: an attachable statement whose owning qualified table name
\* is the qualified name of no table or view of the dump is dropped: its
\* definition is in no object and not in residual, the objects of a dump
\* whose attachable statements are all of this kind are returned as they were
\* pushed, and no error is raised.
C13_OrphansDropped ==
  /\ pc = "threw" =>
       \E i \in 1..Len(attachableStatements) : ~Orphan(attachableStatements[i], objects)
  /\ pc = "done" =>
       /\ \A i \in 1..Len(attachableStatements) :
            Orphan(attachableStatements[i], result.objects) =>
              /\ NowhereIn(attachableStatements[i], result.objects)
              /\ IndexOf(result.residual, attachableStatements[i].definition, 0) = -1
       /\ (\A i \in 1..Len(attachableStatements) :
             Orphan(attachableStatements[i], result.objects)) =>
            DefinitionsOf(result.objects) = TextsOf(fragments, TerminalTypes)

\* the definitions of the attachable statements of a type that the object
\* owns, in source order
OwnedBy(o, type, attachables) ==
  DefinitionsOf(SelectSeq(attachables,
                          LAMBDA a : a.type = type /\ OwnerOf(a) = o.qualifiedName))

\* the list field holds the owned definitions, and is absent when there are
\* none
HoldsOwned(field, owned) == field = (IF owned = <<>> THEN Undef ELSE owned)

\* C14 as claimed: every attachable statement is grouped under and attached
\* to its owning qualified table name, the schema.table after ALTER TABLE
\* [ONLY] or ON [ONLY] with the schema defaulted to public, whatever the
\* schema of a sequence name is, and in source order within each group.
C14_AttachedToOwner ==
  pc = "done" =>
    \A k \in 1..Len(result.objects) :
      IsTableOrView(result.objects[k]) =>
        /\ HoldsOwned(result.objects[k].sequences,
                      OwnedBy(result.objects[k], "sequence", attachableStatements))
        /\ HoldsOwned(result.objects[k].constraints,
                      OwnedBy(result.objects[k], "constraint", attachableStatements))
        /\ HoldsOwned(result.objects[k].indexes,
                      OwnedBy(result.objects[k], "index", attachableStatements))

\* the attachable statements of a type filed under the qualified name of o
GroupOf(o, type, attachables) ==
  SelectSeq(attachables, LAMBDA a : a.type = type /\ GroupKey(a) = o.qualifiedName)

\* the index of the last closing parenthesis at or before the last separator
\* of the text, or -1
FinalParen(text) ==
  LET semis  == {i \in 0..(Len(text) - 1) : text[i + 1] = ";"}
      parens == {i \in 0..(Len(text) - 1) :
                   text[i + 1] = ")" /\ \E j \in semis : i <= j}
  IN  IF parens = {} THEN -1 ELSE CHOOSE i \in parens : \A j \in parens : j <= i

\* the number of characters of text before position p up to the last one
\* that is not white space
ContentEnd(text, p) ==
  LET inked == {i \in 1..p : text[i] \notin WhiteSpace}
  IN  IF inked = {} THEN 0 ELSE CHOOSE i \in inked : \A j \in inked : j <= i

\* items, each after a comma, a newline and the indent
RECURSIVE Block(_, _)
Block(items, indent) ==
  IF items = <<>> THEN <<>>
  ELSE <<",", "\n">> \o indent \o Head(items) \o Block(Tail(items), indent)

\* base with the block of the items put after its last content before the
\* final parenthesis at paren, and a newline before that parenthesis
WithBlock(base, items, indent, paren) ==
  Slice(base, 0, ContentEnd(base, paren)) \o Block(items, indent)
    \o <<"\n">> \o SliceFrom(base, paren)

\* what follows the table text when the object has indexes
IndexTail(o) ==
  IF o.indexes = Undef THEN <<>>
  ELSE <<"\n", "\n">> \o Join(o.indexes, <<"\n">>)

\* the definition of o before its constraints are inserted: as pushed, or
\* with the sequences of its group spliced in
BeforeConstraints(o, pushed, attachables) ==
  IF o.sequences = Undef THEN pushed
  ELSE attachSequencesToTable(pushed, GroupOf(o, "sequence", attachables),
                              EmptyCache).definition

\* the returned definition of o is base with the constraint items inserted
ConstraintsInserted(o, base, items) ==
  FinalParen(base) # -1 =>
    o.definition = WithBlock(base, items, detectIndent(base), FinalParen(base))
                     \o IndexTail(o)

UsersWithKey ==
  <<"C","R","E","A","T","E"," ","T","A","B","L","E"," ","p","u","b","l","i",
    "c",".","u","s","e","r","s"," ","(","i","d"," ","i","n","t",",","\n","C",
    "O","N","S","T","R","A","I","N","T"," ","u","s","e","r","s","_","p","k",
    "e","y"," ","P","R","I","M","A","R","Y"," ","K","E","Y"," ","(","i","d",
    ")","\n",")",";">>

\* C15: for a table whose definition has a closing parenthesis before its
\* terminating separator, the constraints of its group, in source order,
\* each after a comma, a newline and the detected indent, are inserted right
\* after the last non-whitespace character before the final closing
\* parenthesis, with a newline before that parenthesis; the text before and
\* from that parenthesis on is unchanged.  The users table with its primary
\* key gives one table public.users with the constraint before the final
\* parenthesis and an empty residual.
C15_ConstraintsBeforeFinalParen ==
  pc = "done" =>
    /\ \A k \in 1..Len(result.objects) :
         (IsTableOrView(result.objects[k]) /\ result.objects[k].constraints # Undef) =>
           ConstraintsInserted(
             result.objects[k],
             BeforeConstraints(result.objects[k],
                               TextsOf(fragments, TerminalTypes)[k],
                               attachableStatements),
             Map(GroupOf(result.objects[k], "constraint", attachableStatements),
                 ConstraintText))
    /\ content = UsersDump =>
         /\ Len(result.objects) = 1
         /\ result.objects[1].type = "table"
         /\ result.objects[1].qualifiedName
              = <<"p","u","b","l","i","c",".","u","s","e","r","s">>
         /\ result.objects[1].definition = UsersWithKey
         /\ result.residual = <<>>

\* a table with indented columns received two constraints after a sequence
\* was spliced into it, or a constraint and an index
C15_Witness ==
  /\ pc = "done"
  /\ \E k \in 1..Len(result.objects) :
       /\ result.objects[k].type = "table"
       /\ result.objects[k].constraints # Undef
       /\ detectIndent(result.objects[k].definition) # <<>>
       /\ result.objects[k].sequences # Undef \/ result.objects[k].indexes # Undef

AddConstraint == <<"A","D","D"," ","C","O","N","S","T","R","A","I","N","T"," ">>

\* the index of the last separator of the text
LastSeparator(text) ==
  CHOOSE i \in 0..(Len(text) - 1) :
    /\ text[i + 1] = ";"
    /\ \A j \in (i + 1)..(Len(text) - 1) : text[j + 1] # ";"

\* everything between ADD CONSTRAINT <name> and the terminating separator of
\* the constraint statement c
DefinitionPart(c) ==
  TrimStart(Slice(c.definition,
                  IndexOf(c.definition, AddConstraint \o c.name, 0)
                    + Len(AddConstraint) + Len(c.name),
                  LastSeparator(c.definition)))

\* CONSTRAINT <name> <definition>
ReducedConstraint(c) ==
  <<"C","O","N","S","T","R","A","I","N","T"," ">> \o c.name \o <<" ">> \o DefinitionPart(c)

\* C16 as claimed: every constraint text put into a table definition is
\* CONSTRAINT <name> <definition>, the definition being everything between
\* ADD CONSTRAINT <name> and the terminating separator, without the ALTER
\* TABLE ... ADD header and without the separator, also for a constraint
\* whose definition spans several lines.
C16_ReducedConstraints ==
  pc = "done" =>
    \A k \in 1..Len(result.objects) :
      (IsTableOrView(result.objects[k]) /\ result.objects[k].constraints # Undef) =>
        ConstraintsInserted(
          result.objects[k],
          BeforeConstraints(result.objects[k],
                            TextsOf(fragments, TerminalTypes)[k],
                            attachableStatements),
          Map(GroupOf(result.objects[k], "constraint", attachableStatements),
              ReducedConstraint))

\* d without its trailing commas and white space
RECURSIVE StripTail(_)
StripTail(d) ==
  IF Len(d) > 0 /\ d[Len(d)] \in WhiteSpace \cup {","}
  THEN StripTail(SubSeq(d, 1, Len(d) - 1))
  ELSE d

\* the start of the white space that ends at position e of d
SpaceStart(d, e) ==
  CHOOSE i \in 0..e :
    /\ \A j \in (i + 1)..e : d[j] \in WhiteSpace
    /\ i = 0 \/ d[i] \notin WhiteSpace

\* the item starts, after leading white space, with the column identifier
\* followed by white space
StartsItem(item, column) ==
  LET t == TrimStart(item)
  IN  /\ Len(t) > Len(column)
      /\ SubSeq(t, 1, Len(column)) = column
      /\ t[Len(column) + 1] \in WhiteSpace

\* the bounds <<p, e>> of the first comma-separated item of text between p
\* and close that starts with the column, or <<>>
RECURSIVE FindItem(_, _, _, _)
FindItem(text, column, p, close) ==
  LET c == IndexOf(text, <<",">>, p)
      e == IF c = -1 \/ c >= close THEN close ELSE c + 1
  IN  IF p >= close THEN <<>>
      ELSE IF StartsItem(Slice(text, p, e), column) THEN <<p, e>>
      ELSE FindItem(text, column, e, close)

\* where the trailing [NOT] NULL clause of the column definition d begins,
\* with the white space before it; Len(d) when it has none
NullClauseStart(d) ==
  LET n == Len(d) - 4
  IN  IF n < 1 \/ SubSeq(d, n + 1, n + 4) # <<"N","U","L","L">>
           \/ d[n] \notin WhiteSpace
      THEN Len(d)
      ELSE LET ws == SpaceStart(d, n)
           IN  IF /\ ws >= 4
                  /\ SubSeq(d, ws - 2, ws) = <<"N","O","T">>
                  /\ d[ws - 3] \in WhiteSpace
               THEN SpaceStart(d, ws - 3)
               ELSE ws

\* text with the sequence text put into the item at bounds
SplicedInto(text, bounds, sequenceText) ==
  LET d   == StripTail(Slice(text, bounds[1], bounds[2]))
      pos == bounds[1] + (Len(d) - Len(TrimStart(d))) + NullClauseStart(TrimStart(d))
  IN  Slice(text, 0, pos) \o <<" ">> \o sequenceText \o SliceFrom(text, pos)

\* text with the sequence spliced into its column when the column is found
SplicedOne(text, sequence, open, close) ==
  IF open = -1 \/ close = -1 THEN text
  ELSE IF FindItem(text, sequence.column, open + 1, close) = <<>> THEN text
  ELSE SplicedInto(text, FindItem(text, sequence.column, open + 1, close),
                   SequenceText(sequence.definition,
                                Exec(SEQUENCE_HEADER_REGEX, sequence.definition)))

\* text with the first n sequences spliced one after another
RECURSIVE SplicedAll(_, _, _)
SplicedAll(text, sequences, n) ==
  IF n = 0 THEN text
  ELSE SplicedOne(SplicedAll(text, sequences, n - 1), sequences[n],
                  IndexOf(SplicedAll(text, sequences, n - 1), <<"(">>, 0),
                  FinalParen(SplicedAll(text, sequences, n - 1)))

\* the returned definition of o is spliced with what attachment puts after
\* the sequences: the constraints and the indexes of o
ThenTheRest(o, spliced, constraints) ==
  o.definition
    = (IF o.constraints = Undef THEN spliced
       ELSE attachConstraintsToTable(spliced, constraints)) \o IndexTail(o)

\* C17 as claimed: each sequence of a table's group whose column starts one
\* of the comma-separated items of the column list, followed by white space,
\* is spliced into the first such item right before its trailing [NOT] NULL
\* clause, or at the end of the column definition when it has none; the rest
\* of the table definition is unchanged, sequences being spliced one after
\* another.
C17_SequencesSpliced ==
  pc = "done" =>
    \A k \in 1..Len(result.objects) :
      (result.objects[k].type = "table" /\ result.objects[k].sequences # Undef) =>
        ThenTheRest(
          result.objects[k],
          SplicedAll(TextsOf(fragments, TerminalTypes)[k],
                     GroupOf(result.objects[k], "sequence", attachableStatements),
                     Len(GroupOf(result.objects[k], "sequence", attachableStatements))),
          GroupOf(result.objects[k], "constraint", attachableStatements))

\* o is as it was pushed: its definition is the pushed text and it has no
\* sequences, constraints or indexes
Untouched(o, pushed) ==
  /\ o.definition = pushed
  /\ o.sequences = Undef
  /\ o.constraints = Undef
  /\ o.indexes = Undef

\* no attachable statement is owned by a table of the qualified name of o
OwnsNothing(o, attachables) ==
  \A i \in 1..Len(attachables) : OwnerOf(attachables[i]) # o.qualifiedName

\* C18 as claimed: attachment changes only tables and views that own an
\* attachable statement: every object of another kind, also one named like
\* the owning table of an attachable, and every table or view that owns
\* none, is returned as it was pushed; with no attachable statement at all
\* every definition is as pushed.
C18_OnlyOwnersChange ==
  pc = "done" =>
    \A k \in 1..Len(result.objects) :
      (\/ ~IsTableOrView(result.objects[k])
       \/ OwnsNothing(result.objects[k], attachableStatements)) =>
        Untouched(result.objects[k], TextsOf(fragments, TerminalTypes)[k])

\* ------------------------------------------------------------------------
\* Properties of repeated calls
\* ------------------------------------------------------------------------
\* the call that is over gave what the fresh call gives: it raised when the
\* fresh one raises, and returned the same result otherwise
AsFresh(fresh) ==
  /\ pc = "done" <=> fresh.returned
  /\ pc = "done" => result = fresh

\* C19: whatever calls came before in the process, a call of parse that is
\* over has returned the objects, in the same order and with the same
\* spliced definitions, and the residual that parse returns on the same text
\* in a fresh process, where the column cache is empty, and has raised when
\* the fresh call raises.
C19_AsInAFreshProcess ==
  pc \in {"done", "threw"} => AsFresh(parse(content, EmptyCache))

\* a later call on a table with a sequence is over and has spliced it: the
\* cache holds the pattern of its column and a pattern that only an earlier
\* call can have put there
C19_Witness ==
  /\ pc = "done"
  /\ \E k \in 1..Len(result.objects) :
       /\ result.objects[k].sequences # Undef
       /\ result.objects[k].definition # TextsOf(fragments, TerminalTypes)[k]
  /\ \E i \in 1..Len(attachableStatements) :
       /\ attachableStatements[i].type = "sequence"
       /\ ColumnPattern(attachableStatements[i].column) \in DOMAIN TABLE_COLUMN_REGEX_CACHE
  /\ \E q \in DOMAIN TABLE_COLUMN_REGEX_CACHE :
       \A i \in 1..Len(attachableStatements) :
         attachableStatements[i].type = "sequence"
           => ColumnPattern(attachableStatements[i].column) # q

\* ------------------------------------------------------------------------
\* Properties of the tokenizer on its own output
\* ------------------------------------------------------------------------
\* C20: every statement that splitIntoStatements returned, tokenized again
\* on its own with the same separator, gives one statement, equal to it;
\* also for statements with dollar-quoted spans, unclosed tags, comments and
\* quotes, and for a last statement without separator.
C20_StatementsRetokenize ==
  pc = "done" =>
    \A k \in 1..Len(statements) :
      splitIntoStatements(statements[k], separator) = <<statements[k]>>

\* a statement with a dollar sign was ended by the separator, and the last
\* statement, which opens a quote or a comment, has no separator
C20_Witness ==
  /\ pc = "done"
  /\ Len(statements) >= 2
  /\ \E k \in 1..(Len(statements) - 1) : IndexOf(statements[k], <<"$">>, 0) # -1
  /\ statements[Len(statements)][Len(statements[Len(statements)])] # separator
  /\ Flags(scan) # Normal

\* ------------------------------------------------------------------------
\* Properties of attachment items whose lookup fails
\* ------------------------------------------------------------------------
\* the objects in which attachment looks for the attachable a
TargetsOf(a, objs) ==
  SelectSeq(objs, LAMBDA o : IsTableOrView(o) /\ o.qualifiedName = GroupKey(a))

\* the lookup of a in the pushed definition of o fails: a sequence whose
\* column starts no item of the column list or whose object has no CREATE
\* TABLE header, a constraint for a definition without closing parenthesis
\* before its terminating separator
FailsIn(a, o) ==
  \/ /\ a.type = "sequence"
     /\ \/ o.type # "table"
        \/ IndexOf(o.definition, <<"(">>, 0) = -1
        \/ FinalParen(o.definition) = -1
        \/ FindItem(o.definition, a.column,
                    IndexOf(o.definition, <<"(">>, 0) + 1,
                    FinalParen(o.definition)) = <<>>
  \/ /\ a.type = "constraint"
     /\ FinalParen(o.definition) = -1

FailsLookup(a, objs) ==
  \E k \in 1..Len(TargetsOf(a, objs)) : FailsIn(a, TargetsOf(a, objs)[k])

\* the attachables of the loop whose lookup does not fail
Sound(loop) ==
  SelectSeq(loop.attachableStatements, LAMBDA a : ~FailsLookup(a, loop.objects))

\* the call returned, and the definitions are those that attachment gives
\* without the failing items
AsWithout(loop, sound, expected) ==
  Len(sound) < Len(loop.attachableStatements) =>
    /\ pc = "done"
    /\ ~expected.threw
    /\ DefinitionsOf(result.objects) = DefinitionsOf(expected.objects)

AsWithoutFailing(loop) ==
  AsWithout(loop, Sound(loop),
            attachObjectsToTables(loop.objects, Sound(loop), EmptyCache))

\* C22 as claimed: when the lookup of an attachment item fails, parse raises
\* nothing and every definition is what attachment gives with the failing
\* items absent: the failing item changes no text, and the other sequences,
\* constraints and indexes are attached all the same.
C22_FailedLookupsSkipped ==
  pc \in {"done", "threw"} =>
    AsWithoutFailing(AllRouted(splitIntoStatements(content, ";")))

\* ------------------------------------------------------------------------
\* Properties of the order of the attachment phases
\* ------------------------------------------------------------------------
\* the definitions of the statements, or undefined when there is none
ListOrUndef(list) == IF list = <<>> THEN Undef ELSE DefinitionsOf(list)

\* the statement of the object itself after the first two phases: own is the
\* definition with the sequences spliced in
OwnStatement(own, constraints) ==
  IF constraints = <<>> THEN own ELSE attachConstraintsToTable(own, constraints)

\* every constraint of the block ends before the final parenthesis of the
\* statement of the object, which ends with the separator
BlockInside(statement, constraints) ==
  /\ statement[Len(statement)] = ";"
  /\ \A i \in 1..Len(constraints) :
       /\ IndexOf(statement, ConstraintText(constraints[i]), 0) # -1
       /\ IndexOf(statement, ConstraintText(constraints[i]), 0)
            + Len(ConstraintText(constraints[i])) <= FinalParen(statement)

\* what follows the statement of the object: nothing, or a blank line and
\* the index statements in source order
AppendedIndexes(indexes) ==
  IF indexes = <<>> THEN <<>>
  ELSE <<"\n", "\n">> \o Join(DefinitionsOf(indexes), <<"\n">>)

PhasesInOrder(o, own, sequences, constraints, indexes) ==
  /\ o.sequences = ListOrUndef(sequences)
  /\ o.constraints = ListOrUndef(constraints)
  /\ o.indexes = ListOrUndef(indexes)
  /\ o.definition = OwnStatement(own, constraints) \o AppendedIndexes(indexes)
  /\ (constraints # <<>> /\ FinalParen(own) # -1) =>
       BlockInside(OwnStatement(own, constraints), constraints)

\* C23: for a table or view with a group the phases are applied once, in the
\* order sequences, constraints, indexes: the definition is the one with the
\* sequences spliced in, then the constraints inserted, followed by the full
\* text of the index statements of the group in source order; the constraint
\* block lies inside the statement of the object, before its terminating
\* separator and so before the first index.
C23_PhaseOrder ==
  pc = "done" =>
    /\ Len(result.objects) = Len(TextsOf(fragments, TerminalTypes))
    /\ \A k \in 1..Len(result.objects) :
         (/\ IsTableOrView(result.objects[k])
          /\ \E i \in 1..Len(attachableStatements) :
               GroupKey(attachableStatements[i]) = result.objects[k].qualifiedName) =>
           PhasesInOrder(
             result.objects[k],
             BeforeConstraints(result.objects[k],
                               TextsOf(fragments, TerminalTypes)[k],
                               attachableStatements),
             GroupOf(result.objects[k], "sequence", attachableStatements),
             GroupOf(result.objects[k], "constraint", attachableStatements),
             GroupOf(result.objects[k], "index", attachableStatements))

\* a table received a constraint and an index: the constraint is inside its
\* statement and the index statement follows
C23_Witness ==
  /\ pc = "done"
  /\ \E k \in 1..Len(result.objects) :
       /\ result.objects[k].type = "table"
       /\ result.objects[k].constraints # Undef
       /\ result.objects[k].indexes # Undef
       /\ result.objects[k].definition
            # TextsOf(fragments, TerminalTypes)[k] \o IndexTail(result.objects[k])

\* ------------------------------------------------------------------------
\* Properties of the lexical states of the tokenizer
\* ------------------------------------------------------------------------
\* the flags <<inDashComment, inBlockComment, inSingleQuote, inDoubleQuote>>
\* of each lexical state
FlagsOf(mode) ==
  CASE mode = "Normal"                 -> <<FALSE, FALSE, FALSE, FALSE>>
    [] mode = "LineComment"            -> <<TRUE, FALSE, FALSE, FALSE>>
    [] mode = "BlockComment"           -> <<FALSE, TRUE, FALSE, FALSE>>
    [] mode = "SingleQuotedString"     -> <<FALSE, FALSE, TRUE, FALSE>>
    [] mode = "DoubleQuotedIdentifier" -> <<FALSE, FALSE, FALSE, TRUE>>

\* how far a dollar sign at position p reaches: over the span up to its
\* closing tag, over the tag when it is not closed, over itself otherwise
AfterDollar(text, p, tag) ==
  IF tag = Undef THEN p + 1
  ELSE IF ClosePos(text, p, tag) # -1 THEN ClosePos(text, p, tag) + Len(tag)
  ELSE p + Len(tag)

\* one step of the scan as the states are described: a line comment runs
\* from -- to the first line break, a block comment from /* to the first */
\* after it, a quote runs to the next quote of its kind, and openers count
\* in the Normal state only
Described(text, r, char, nextChar) ==
  IF char = "$"
  THEN [r EXCEPT !.pos = AfterDollar(text, r.pos, DollarQuoteTag(text, r.pos))]
  ELSE IF r.mode = "Normal" THEN
    IF char = "-" /\ nextChar = "-" THEN [mode |-> "LineComment", pos |-> r.pos + 2]
    ELSE IF char = "/" /\ nextChar = "*" THEN [mode |-> "BlockComment", pos |-> r.pos + 2]
    ELSE IF char = "'" THEN [mode |-> "SingleQuotedString", pos |-> r.pos + 1]
    ELSE IF char = "\"" THEN [mode |-> "DoubleQuotedIdentifier", pos |-> r.pos + 1]
    ELSE [r EXCEPT !.pos = @ + 1]
  ELSE IF r.mode = "LineComment" THEN
    IF char \in {"\n", "\r"} THEN [mode |-> "Normal", pos |-> r.pos + 1]
    ELSE [r EXCEPT !.pos = @ + 1]
  ELSE IF r.mode = "BlockComment" THEN
    IF char = "*" /\ nextChar = "/" THEN [mode |-> "Normal", pos |-> r.pos + 2]
    ELSE [r EXCEPT !.pos = @ + 1]
  ELSE IF r.mode = "SingleQuotedString" THEN
    IF char = "'" THEN [mode |-> "Normal", pos |-> r.pos + 1]
    ELSE [r EXCEPT !.pos = @ + 1]
  ELSE
    IF char = "\"" THEN [mode |-> "Normal", pos |-> r.pos + 1]
    ELSE [r EXCEPT !.pos = @ + 1]

\* the described scan from r up to the first position at or after p
RECURSIVE DescribedUpTo(_, _, _)
DescribedUpTo(text, r, p) ==
  IF r.pos >= p \/ r.pos >= Len(text) THEN r
  ELSE DescribedUpTo(text,
                     Described(text, r, CharAt(text, r.pos), CharAt(text, r.pos + 1)),
                     p)

\* the flags of the scan are those of the described state at its position
AsDescribed(t, r) ==
  r.pos = t.pos => Flags(t) = FlagsOf(r.mode)

\* C24 as claimed: at every scan position at most one of the four flags is
\* set, and the flags are those of the described lexical state there: a line
\* comment ends at the first line break after its --, a block comment at the
\* first */ after its /*, comment openers in a quoted region and quotes in a
\* comment change nothing.
C24_LexicalStates ==
  /\ Cardinality({i \in 1..4 : Flags(scan)[i]}) <= 1
  /\ AsDescribed(scan, DescribedUpTo(content, [mode |-> "Normal", pos |-> 0], scan.pos))

\* ------------------------------------------------------------------------
\* Properties of the written files
\* ------------------------------------------------------------------------
\* the object has its file, with its definition as content
HasItsFile(object, path) ==
  /\ path \in DOMAIN files
  /\ files[path] = object.definition

\* C21 as claimed: when writeObjects has returned and recorded no error,
\* every object of the parse result has its file at
\* {type}s/{qualifiedName or name}.sql with exactly its definition as
\* content, in whatever order the steps of the writes completed, also for
\* two objects of the same type and qualified name.
C21_EveryObjectWritten ==
  (pc = "returned" /\ summary.errors = <<>>) =>
    \A i \in 1..Len(result.objects) :
      HasItsFile(result.objects[i], getObjectPath(result.objects[i]).file)

====
